---- MODULE Spec2Model ----
(***************************************************************************)
(* A model of @lcdev/router (src/src/index.ts): the route composer         *)
(* (createRoutes / createAllRoutes / createRouterRaw) and the per-request  *)
(* chain that addRouteToRouter registers (router middleware, schema and    *)
(* query validation, route middleware, the action wrapper) below the       *)
(* propagateErrors envelope.                                               *)
(*                                                                         *)
(* The specifications of the module:                                       *)
(*   SpecCompose  one composition pass over a forest of route factories,   *)
(*                followed by the mounting of the routes;                  *)
(*   SpecAsync    one composition pass whose callbacks are asynchronous,   *)
(*                resume in any order and may reject;                      *)
(*   SpecPaginate one request through the paginate middleware of           *)
(*                pagination.ts (src/unnamed/part_002);                    *)
(*   Spec         one request travelling through the chain of a mounted    *)
(*                route;                                                   *)
(*   SpecValues   one request below propagateValues;                       *)
(*   SpecConcurrent  two requests through the same router, their stages    *)
(*                interleaved at every await;                              *)
(*   SpecNested   one request below nested propagateErrors instances with  *)
(*                transform functions;                                     *)
(*   SpecShared   one request that two routes of the router match.         *)
(***************************************************************************)
EXTENDS Integers, Sequences, FiniteSets, TLC

VARIABLES
    \* ---- composition (createAllRoutes) ----
    phase,            \* "request" | "idle" | "composing" | "resolved" | "mounted"
    sync,             \* TRUE: every callback returns a plain value
    factories,        \* the forest: per factory its prefix and whether it declares middleware
    pc,               \* per factory: the call createRoutes is awaiting
    deps,             \* per factory: what getDependencies returned
    created,          \* per factory: what create returned
    routerMw,         \* per factory: createRoutes' local routerMiddleware
    made,             \* per factory: what createRoutes returned
    allRoutes,        \* what the top-level createAllRoutes returned
    router,           \* the layers registered on the koa router, in order
    calls,            \* the calls made to the factories' callbacks, in order
    rejected,         \* per factory: the error its createRoutes rejected with; at 0: createRouterFactories'
    arrays,           \* per factory: what the array that create returned holds by now
    \* ---- one request ----
    request,          \* the request: method, path, parsed body
    declared,         \* what the matched route declares: schema, querySchema, returning
    rest,             \* the stages of the request's chain that have not started
    frames,           \* the stages suspended in `await next()` that act when it settles
    mode,             \* "next" | "return" | "throw" | "responded" | "uncaught" | "none"
    ctx,              \* the koa context
    thrown,           \* the error in flight, or the one that reached the host
    nodeEnv,          \* process.env.NODE_ENV, drawn when line 714 reads it
    log,              \* which stages started, which validators were called / returned true
    act,              \* what the action did and the context it returned in
    emitted,          \* the 'servall-err' events emitted
    delivered,        \* what koa sent
    \* ---- a second request ----
    other             \* the request whose handlers are not running: its own request .. delivered

composeVars == <<phase, sync, factories, pc, deps, created, routerMw, made, allRoutes, router, calls,
                 rejected, arrays>>
requestVars == <<request, declared, rest, frames, mode, ctx, thrown, nodeEnv, log, act,
                 emitted, delivered, other>>
vars == <<composeVars, requestVars>>

----------------------------------------------------------------------------
(* Bounds of the model. *)

\* the longest path array a declaration carries
MaxPaths == 2
\* the longest method array a declaration carries
MaxMethods == 2
\* the most middleware a route inherits from its factories
MaxRouterMw == 2
\* the most middleware a route declares itself
MaxRouteMw == 2
\* the most propagateErrors instances around a route
MaxWrap == 2
\* callbacks that throw or reject in one composition pass
MaxFailures == 1
\* the largest number a query string of one digit spells
MaxNumber == 4
\* the largest total an action passes to addPagination
MaxTotal == 5

----------------------------------------------------------------------------
(* Path strings and path.join.                                             *)
(*                                                                         *)
(* A path string is a sequence of tokens: the separator "/" or one whole   *)
(* segment ("a", ":id", ".", ".."). No two segments are adjacent, so the   *)
(* segments of a string are its tokens other than "/".                     *)

Sep == "/"

EmptyStr == <<>>

Segments(s) == SelectSeq(s, LAMBDA t : t # Sep)

\* segments joined by the separator
RECURSIVE Interleave(_)
Interleave(segs) ==
    IF Len(segs) <= 1 THEN segs
    ELSE <<Head(segs), Sep>> \o Interleave(Tail(segs))

\* node's normalizeString: "." is dropped, ".." removes the segment before
\* it, or is kept when there is none and the path is relative
RECURSIVE normalizeString(_, _, _)
normalizeString(segs, allowAboveRoot, res) ==
    IF segs = <<>> THEN res
    ELSE LET h == Head(segs)
             t == Tail(segs)
         IN  IF h = "." THEN normalizeString(t, allowAboveRoot, res)
             ELSE IF h = ".."
             THEN IF res # <<>> /\ res[Len(res)] # ".."
                  THEN normalizeString(t, allowAboveRoot, SubSeq(res, 1, Len(res) - 1))
                  ELSE IF allowAboveRoot
                       THEN normalizeString(t, allowAboveRoot, Append(res, ".."))
                       ELSE normalizeString(t, allowAboveRoot, res)
             ELSE normalizeString(t, allowAboveRoot, Append(res, h))

\* path.posix.normalize
normalize(path) ==
    IF path = EmptyStr THEN <<".">>
    ELSE LET isAbsolute == path[1] = Sep
             trailingSeparator == path[Len(path)] = Sep
             body == Interleave(normalizeString(Segments(path), ~isAbsolute, <<>>))
         IN  IF body = <<>>
             THEN IF isAbsolute THEN <<Sep>>
                  ELSE IF trailingSeparator THEN <<".", Sep>> ELSE <<".">>
             ELSE (IF isAbsolute THEN <<Sep>> ELSE <<>>)
                  \o body
                  \o (IF trailingSeparator THEN <<Sep>> ELSE <<>>)

\* the arguments of path.join glued with "/", the empty ones skipped
RECURSIVE Glue(_)
Glue(args) ==
    IF args = <<>> THEN EmptyStr
    ELSE LET joined == Glue(Tail(args))
         IN  IF Head(args) = EmptyStr THEN joined
             ELSE IF joined = EmptyStr THEN Head(args)
             ELSE Head(args) \o <<Sep>> \o joined

\* path.join(...args)
joinAll(args) == IF Glue(args) = EmptyStr THEN <<".">> ELSE normalize(Glue(args))

\* path.join(a, b), as createRoutes calls it
join(a, b) == joinAll(<<a, b>>)

----------------------------------------------------------------------------
(* Route declarations and the forest of factories that is composed.        *)

\* HttpMethod
HttpMethod == {"get", "post", "put", "patch", "delete", "head", "options", "all"}

\* the methods a method array lists, by position
MethodAt == <<"get", "post", "put", "patch">>

\* the paths a path array lists, by position
PathAt == << <<"/", "r1">>, <<"r2">>, <<"/", "r3", "/">>, <<"/", ":id">> >>

\* a middleware function; owner 0 is a route's own middleware
Mw(owner, idx) == [kind |-> "user", owner |-> owner, idx |-> idx]

\* propagateErrors(includeInternalErrors), a middleware function as well
PropagateErrors(includeInternalErrors) ==
    [kind |-> "propagateErrors", includeInternalErrors |-> includeInternalErrors,
     transform |-> "undefined"]

\* propagateErrors(includeInternalErrors, transform), transform being the
\* name that stands for the function
PropagateErrorsWith(includeInternalErrors, transform) ==
    [kind |-> "propagateErrors", includeInternalErrors |-> includeInternalErrors,
     transform |-> transform]

\* propagateValues(), a middleware function
PropagateValues == [kind |-> "propagateValues"]

\* a middleware of the application that calls addMeta around `await next()`
AddMetaMiddleware == [kind |-> "addMeta"]

\* path: string | string[]
OnePath(p) == [isArray |-> FALSE, strs |-> <<p>>]
PathArray(n) == [isArray |-> TRUE, strs |-> SubSeq(PathAt, 1, n)]

\* method: HttpMethod | HttpMethod[]
OneMethod(m) == [isArray |-> FALSE, ms |-> <<m>>]
MethodArray(n) == [isArray |-> TRUE, ms |-> SubSeq(MethodAt, 1, n)]

\* middleware?: Middleware[] | (() => Middleware[])
NoMiddleware == [kind |-> "undefined", list |-> <<>>]
MiddlewareArray(l) == [kind |-> "array", list |-> l]
MiddlewareThunk(l) == [kind |-> "function", list |-> l]

\* a Route as a factory's create returns it; the action stands for the
\* declaration's identity, <<f, k>> being the k-th declaration of factory f
Route(f, k, path, method, middleware, sch, qsch, ret) ==
    [ path             |-> path,
      method           |-> method,
      action           |-> <<f, k>>,
      schema           |-> sch,
      querySchema      |-> qsch,
      returning        |-> ret,
      middleware       |-> middleware,
      routerMiddleware |-> [has |-> FALSE, list |-> <<>>] ]

\* the forest: ParentTable[f] is the factory whose nested() returns f, 0 for
\* a factory handed to createAllRoutes directly; nested() lists its
\* factories in increasing order
ParentTable == <<0, 1, 2, 1, 0>>

Factories == 1 .. Len(ParentTable)

ParentOf(f) == ParentTable[f]

\* what p's nested() returns (the top-level list for p = 0)
ChildrenOf(p) ==
    LET S == {f \in Factories : ParentOf(f) = p}
        RECURSIVE Asc(_)
        Asc(T) == IF T = {} THEN <<>>
                  ELSE LET m == CHOOSE x \in T : \A y \in T : x <= y
                       IN  <<m>> \o Asc(T \ {m})
    IN  Asc(S)

HasNested(f) == ChildrenOf(f) # <<>>

\* the factories from the top-level one down to f
RECURSIVE ChainOf(_)
ChainOf(f) == IF f = 0 THEN <<>> ELSE Append(ChainOf(ParentOf(f)), f)

\* the segment a factory's prefix is made of
PrefixName == <<"p1", "p2", "p3", "p4", "p5">>

NoPrefix == [has |-> FALSE, str |-> EmptyStr]
Prefix(s) == [has |-> TRUE, str |-> s]

\* the prefixes a factory may declare: the factories of the chain 1 > 2 > 3
\* vary, their siblings 4 and 5 keep one prefix each
PrefixSet(f) ==
    CASE f = 1 -> { NoPrefix, Prefix(<<Sep, PrefixName[f]>>), Prefix(<<Sep, PrefixName[f], Sep>>) }
      [] f \in {2, 3} -> { NoPrefix, Prefix(<<Sep, PrefixName[f]>>), Prefix(<<Sep, "..">>) }
      [] OTHER -> { Prefix(<<Sep, PrefixName[f]>>) }

\* whether a factory may declare middleware, or must, or must not
HasMiddlewareSet(f) ==
    CASE f \in {1, 2} -> BOOLEAN
      [] f \in {3, 4} -> {TRUE}
      [] OTHER -> {FALSE}

\* the paths a declaration with one path may give
PathSet == { EmptyStr, <<Sep>>, <<Sep, "r">>, <<"r">>, <<"..", Sep, "r">> }

\* the lists a factory's create may return: factory 3, the deepest, draws
\* one declaration from a wide set, the others return fixed declarations
CreateResults(f) ==
    CASE f = 1 -> { << Route(1, 1, OnePath(<<Sep, "top">>), OneMethod("get"),
                             NoMiddleware, "undefined", "undefined", "undefined"),
                       Route(1, 2, OnePath(<<Sep, "two">>), OneMethod("post"),
                             MiddlewareArray(<<Mw(0, 1)>>), "schema", "undefined", "undefined") >> }
      [] f = 3 ->
            { <<Route(3, 1, OnePath(p), OneMethod("get"),
                      NoMiddleware, "undefined", "undefined", "undefined")>> : p \in PathSet }
            \cup
            { <<Route(3, 1, PathArray(n), MethodArray(m),
                      MiddlewareArray(<<Mw(0, 1), Mw(0, 2)>>), "schema", "querySchema", "returning")>> :
                  n \in 0 .. MaxPaths, m \in 0 .. MaxMethods }
            \cup
            { <<Route(3, 1, OnePath(<<Sep, "r">>), OneMethod("all"),
                      MiddlewareThunk(l), "undefined", "querySchema", "undefined")>> :
                  l \in { <<>>, <<Mw(0, 1)>> } }
      [] f = 5 -> { <<>> }
      [] OTHER -> { <<Route(f, 1, OnePath(<<Sep, "nested">>), OneMethod("get"),
                            NoMiddleware, "undefined", "undefined", "undefined")>> }

\* the lists create may return in the passes with asynchronous callbacks:
\* one declaration for factory 3, one with two paths for factory 4
AsyncCreateResults(f) ==
    CASE f = 3 -> { <<Route(3, 1, OnePath(<<Sep, "r">>), OneMethod("get"),
                            NoMiddleware, "undefined", "undefined", "undefined")>> }
      [] f = 4 -> { <<Route(4, 1, PathArray(2), OneMethod("get"),
                            NoMiddleware, "undefined", "undefined", "undefined")>> }
      [] OTHER -> CreateResults(f)

\* the lists a factory's middleware() may return
MiddlewareResults(f) ==
    CASE f = 2 -> { <<Mw(f, 1), Mw(f, 2)>> }
      [] f = 3 -> { <<>>, <<Mw(f, 1)>> }
      [] OTHER -> { <<Mw(f, 1)>> }

----------------------------------------------------------------------------
(* createRoutes, lines 294-328: the pure part after the awaits.            *)

\* a declaration with a path array becomes one route, of its first path
flatRoutes_FirstPath(routes) ==
    LET kept == SelectSeq(routes, LAMBDA route : route.path.strs # <<>>)
    IN  [i \in 1 .. Len(kept) |-> [kept[i] EXCEPT !.path = OnePath(kept[i].path.strs[1])]]

\* routes.reduce(...): a declaration with a path array becomes one route
\* per element
RECURSIVE flatRoutes(_)
flatRoutes(routes) ==
    IF routes = <<>> THEN <<>>
    ELSE LET route == Head(routes)
         IN  (IF route.path.isArray
              THEN [i \in 1 .. Len(route.path.strs) |->
                        [route EXCEPT !.path = OnePath(route.path.strs[i])]]
              ELSE <<route>>)
             \o flatRoutes(Tail(routes))

\* the route's path without the factory's prefix
madePath_NoPrefix(factory, route) == join(EmptyStr, route.path.strs[1])

\* join(factory.prefix ?? '', route.path)
madePath(factory, route) ==
    join(IF factory.prefix.has THEN factory.prefix.str ELSE EmptyStr, route.path.strs[1])

\* route.middleware ? (typeof route.middleware === 'function' ? route.middleware() : route.middleware) : []
madeMiddleware(route) ==
    IF route.middleware.kind = "undefined" THEN <<>> ELSE route.middleware.list

\* the route's inherited list ahead of the factory's
madeRouterMiddleware_InnerFirst(routerMiddleware, route) ==
    (IF route.routerMiddleware.has THEN route.routerMiddleware.list ELSE <<>>)
    \o (IF routerMiddleware.has THEN routerMiddleware.list ELSE <<>>)

\* [...(routerMiddleware ?? []), ...(route.routerMiddleware ?? [])]
madeRouterMiddleware(routerMiddleware, route) ==
    (IF routerMiddleware.has THEN routerMiddleware.list ELSE <<>>)
    \o (IF route.routerMiddleware.has THEN route.routerMiddleware.list ELSE <<>>)

\* flatRoutes.map<MadeRoute>(...)
madeRoute(factory, routerMiddleware, route) ==
    [route EXCEPT !.path = OnePath(madePath(factory, route)),
                  !.middleware = MiddlewareArray(madeMiddleware(route)),
                  !.routerMiddleware =
                      [has |-> TRUE, list |-> madeRouterMiddleware(routerMiddleware, route)]]

\* what createRoutes returns for `factory`, given its own and its nested
\* factories' routes and its router middleware
createRoutesReturn(factory, routes, routerMiddleware) ==
    LET flat == flatRoutes(routes)
    IN  [i \in 1 .. Len(flat) |-> madeRoute(factory, routerMiddleware, flat[i])]

\* routerRoutes.reduce((acc, routes) => acc.concat(routes), [])
RECURSIVE concatAll(_)
concatAll(lists) ==
    IF lists = <<>> THEN <<>> ELSE Head(lists) \o concatAll(Tail(lists))

\* the results flattened in the order in which the factories' create was
\* called
createAllRoutesReturn_AsCalled(list, results) ==
    LET at(f) == CHOOSE i \in 0 .. Len(calls) :
                    \/ i > 0 /\ calls[i].fn = "create" /\ calls[i].f = f
                    \/ i = 0 /\ \A j \in 1 .. Len(calls) : ~(calls[j].fn = "create" /\ calls[j].f = f)
        sorted == SortSeq(list, LAMBDA a, b : at(a) < at(b))
    IN  concatAll([i \in 1 .. Len(sorted) |-> results[sorted[i]]])

\* what createAllRoutes(list) returns once every createRoutes has returned
createAllRoutesReturn(list, results) ==
    concatAll([i \in 1 .. Len(list) |-> results[list[i]]])

----------------------------------------------------------------------------
(* The composition pass: createRouterFactories -> createAllRoutes ->       *)
(* createRoutes per factory, each factory's createRoutes suspended at one  *)
(* await at a time.                                                        *)

NoRouterMiddleware == [has |-> FALSE, list |-> <<>>]

Call(fn, f, arg) == [fn |-> fn, f |-> f, arg |-> arg]

\* the error a callback of factory f threw or rejected with
Rejection(fn, f) == [fn |-> fn, f |-> f]
NoRejection == Rejection("none", 0)

\* every callback is handed the dependencies of its factory's parent
dependencies_OfParent(f, d) == IF ParentOf(f) = 0 THEN d[f] ELSE d[ParentOf(f)]

\* the value createRoutes(factory, await factory.getDependencies()) hands to
\* the factory's callbacks, d being what each getDependencies returned
dependencies(f, d) == d[f]

\* nested is called straight after create, middleware never
afterCreate_NestedFirst(f) ==
    IF HasNested(f) THEN "nested"
    ELSE IF factories[f].hasMiddleware THEN "middleware"
    ELSE "return"

\* what createRoutes does once create has returned: lines 283-292
afterCreate(f) ==
    IF factories[f].hasMiddleware THEN "middleware"
    ELSE IF HasNested(f) THEN "nested"
    ELSE "return"

\* what createRoutes does once middleware has returned: lines 287-292
afterMiddleware(f) == IF HasNested(f) THEN "nested" ELSE "return"

\* a rejection stays with the factory whose callback rejected
rejectUp_Swallowed(rej, f, error) == [rej EXCEPT ![f] = error]

\* an await of createRoutes(f) throws: createRoutes(f) rejects, so the
\* Promise.all of the createAllRoutes that mapped f rejects unless it has
\* rejected already, and so does the createRoutes awaiting it, up to
\* createRouterFactories (0)
RECURSIVE rejectUp(_, _, _)
rejectUp(rej, f, error) ==
    IF rej[f] # NoRejection THEN rej
    ELSE IF f = 0 THEN [rej EXCEPT ![0] = error]
    ELSE rejectUp([rej EXCEPT ![f] = error], ParentOf(f), error)

\* the calls createAllRoutes(list) makes before its first await:
\* factories.map(async factory => ... await factory.getDependencies())
RECURSIVE getDependenciesCalls(_)
getDependenciesCalls(list) ==
    IF list = <<>> THEN <<>>
    ELSE <<Call("getDependencies", Head(list), 0)>> \o getDependenciesCalls(Tail(list))

InList(f, list) == \E i \in 1 .. Len(list) : list[i] = f

\* a factory whose awaited call can resume
Pending(f) ==
    \/ pc[f] \in {"getDependencies", "create", "middleware", "nested"}
    \/ pc[f] = "createAllRoutes" /\ \A i \in 1 .. Len(ChildrenOf(f)) : pc[ChildrenOf(f)[i]] = "done"

\* with callbacks that return plain values the awaits resume one factory at
\* a time; with asynchronous callbacks any pending await may resume
MayResume(f) ==
    /\ phase \in {"composing", "rejected"}
    /\ Pending(f)
    /\ sync => \A g \in Factories : Pending(g) => f <= g

\* array.push(...items): the array itself grows
push(array, items) == array \o items

\* createRoutes returns: lines 294-328
Return(f, routes, routerMiddleware) ==
    /\ made' = [made EXCEPT ![f] = createRoutesReturn(factories[f], routes, routerMiddleware)]
    /\ pc' = [pc EXCEPT ![f] = "done"]

\* createRouterFactories(factories): createAllRoutes(factories) runs up to
\* its first await
createRouterFactories ==
    /\ phase = "idle"
    /\ phase' = "composing"
    /\ pc' = [f \in Factories |-> IF InList(f, ChildrenOf(0)) THEN "getDependencies" ELSE pc[f]]
    /\ calls' = calls \o getDependenciesCalls(ChildrenOf(0))
    /\ UNCHANGED <<sync, factories, deps, created, routerMw, made, allRoutes, router, rejected, arrays>>
    /\ UNCHANGED requestVars

\* await factory.getDependencies() resumes; createRoutes(factory, deps)
\* calls factory.create(deps): lines 338, 279
getDependencies(f) ==
    /\ MayResume(f)
    /\ pc[f] = "getDependencies"
    /\ deps' = [deps EXCEPT ![f] = f]
    /\ calls' = Append(calls, Call("create", f, dependencies(f, deps')))
    /\ pc' = [pc EXCEPT ![f] = "create"]
    /\ UNCHANGED <<phase, sync, factories, created, routerMw, made, allRoutes, router, rejected, arrays>>
    /\ UNCHANGED requestVars

\* await factory.create(deps) resumes: lines 279-292
create(f) ==
    /\ MayResume(f)
    /\ pc[f] = "create"
    /\ \E routes \in (IF sync THEN CreateResults(f) ELSE AsyncCreateResults(f)) :
         /\ created' = [created EXCEPT ![f] = routes]
         /\ arrays' = [arrays EXCEPT ![f] = routes]
         /\ IF afterCreate(f) = "return"
            THEN /\ Return(f, routes, routerMw[f])
                 /\ UNCHANGED calls
            ELSE /\ calls' = Append(calls, Call(afterCreate(f), f, dependencies(f, deps)))
                 /\ pc' = [pc EXCEPT ![f] = afterCreate(f)]
                 /\ UNCHANGED made
    /\ UNCHANGED <<phase, sync, factories, deps, routerMw, allRoutes, router, rejected>>
    /\ UNCHANGED requestVars

\* await factory.middleware(deps) resumes: lines 283-292
middleware(f) ==
    /\ MayResume(f)
    /\ pc[f] = "middleware"
    /\ \E list \in MiddlewareResults(f) :
         LET routerMiddleware == [has |-> TRUE, list |-> list]
         IN  /\ routerMw' = [routerMw EXCEPT ![f] = routerMiddleware]
             /\ IF afterMiddleware(f) = "return"
                THEN /\ Return(f, created[f], routerMiddleware)
                     /\ UNCHANGED calls
                ELSE /\ calls' = Append(calls, Call(afterMiddleware(f), f, dependencies(f, deps)))
                     /\ pc' = [pc EXCEPT ![f] = afterMiddleware(f)]
                     /\ UNCHANGED made
    /\ UNCHANGED <<phase, sync, factories, deps, created, allRoutes, router, rejected, arrays>>
    /\ UNCHANGED requestVars

\* await factory.nested(deps) resumes; createAllRoutes(nested) runs up to
\* its first await: lines 288-291, 336-338
nested(f) ==
    /\ MayResume(f)
    /\ pc[f] = "nested"
    /\ pc' = [g \in Factories |->
                 IF g = f THEN "createAllRoutes"
                 ELSE IF InList(g, ChildrenOf(f)) THEN "getDependencies"
                 ELSE pc[g]]
    /\ calls' = calls \o getDependenciesCalls(ChildrenOf(f))
    /\ UNCHANGED <<phase, sync, factories, deps, created, routerMw, made, allRoutes, router, rejected, arrays>>
    /\ UNCHANGED requestVars

\* await createAllRoutes(nested) resumes: routes.push(...), then lines 294-328
nestedRoutes(f) ==
    /\ MayResume(f)
    /\ pc[f] = "createAllRoutes"
    /\ arrays' = [arrays EXCEPT ![f] = push(@, createAllRoutesReturn(ChildrenOf(f), made))]
    /\ Return(f, arrays'[f], routerMw[f])
    /\ UNCHANGED <<phase, sync, factories, deps, created, routerMw, allRoutes, router, calls, rejected>>
    /\ UNCHANGED requestVars

\* the callbacks of the pass so far that threw or rejected
Failures == { f \in Factories : rejected[f].f = f }

\* the awaited call of createRoutes(f) throws or rejects (getDependencies at
\* line 338, create at 279, middleware at 284, nested at 289): nothing
\* catches it, so every promise up to createRouterFactories' rejects with it
\* unless it has rejected before; the other factories run on
createRoutesThrow(f) ==
    /\ MayResume(f)
    /\ ~sync
    /\ pc[f] \in {"getDependencies", "create", "middleware", "nested"}
    /\ Cardinality(Failures) < MaxFailures
    /\ rejected' = rejectUp(rejected, f, Rejection(pc[f], f))
    /\ pc' = [g \in Factories |-> IF rejected'[g] # NoRejection THEN "failed" ELSE pc[g]]
    /\ phase' = IF rejected'[0] # NoRejection THEN "rejected" ELSE phase
    /\ UNCHANGED <<sync, factories, deps, created, routerMw, made, allRoutes, router, calls,
                   arrays>>
    /\ UNCHANGED requestVars

\* the top-level Promise.all resolves; the routes are flattened: lines 336-343
createAllRoutes ==
    /\ phase = "composing"
    /\ \A i \in 1 .. Len(ChildrenOf(0)) : pc[ChildrenOf(0)[i]] = "done"
    /\ allRoutes' = createAllRoutesReturn(ChildrenOf(0), made)
    /\ phase' = "resolved"
    /\ UNCHANGED <<sync, factories, pc, deps, created, routerMw, made, router, calls, rejected, arrays>>
    /\ UNCHANGED requestVars

----------------------------------------------------------------------------
(* Mounting: createRouterRaw and addRouteToRouter.                         *)
(*                                                                         *)
(* The koa router is the list of its layers in registration order. A       *)
(* layer is what one router[method](path, ...stack) call registers; for a  *)
(* request the router runs, in order, the stacks of the layers that match  *)
(* the request's path and method.                                          *)

Layer(path, method, stack) == [path |-> path, method |-> method, stack |-> stack]

\* the middleware addRouteToRouter builds around a route
SchemaStage(route) == [kind |-> "schema", action |-> route.action]
QuerySchemaStage(route) == [kind |-> "querySchema", action |-> route.action]
ActionStage(route) ==
    [kind |-> "action", action |-> route.action,
     path |-> route.path.strs[1], returning |-> route.returning]

\* the route's own middleware registered ahead of the validation stages
methodLayers_MiddlewareFirst(route, method) ==
    LET path == route.path.strs[1]
        ownMiddleware == IF route.middleware.kind = "undefined" THEN <<>> ELSE route.middleware.list
        routerMiddleware == IF route.routerMiddleware.has THEN route.routerMiddleware.list ELSE <<>>
    IN  <<Layer(path, method, routerMiddleware)>>
        \o <<Layer(path, method, ownMiddleware)>>
        \o (IF route.schema # "undefined" THEN <<Layer(path, method, <<SchemaStage(route)>>)>> ELSE <<>>)
        \o (IF route.querySchema # "undefined" THEN <<Layer(path, method, <<QuerySchemaStage(route)>>)>> ELSE <<>>)
        \o <<Layer(path, method, <<ActionStage(route)>>)>>

\* the querySchema stage registered ahead of the schema stage
methodLayers_QueryFirst(route, method) ==
    LET path == route.path.strs[1]
        ownMiddleware == IF route.middleware.kind = "undefined" THEN <<>> ELSE route.middleware.list
        routerMiddleware == IF route.routerMiddleware.has THEN route.routerMiddleware.list ELSE <<>>
    IN  <<Layer(path, method, routerMiddleware)>>
        \o (IF route.querySchema # "undefined" THEN <<Layer(path, method, <<QuerySchemaStage(route)>>)>> ELSE <<>>)
        \o (IF route.schema # "undefined" THEN <<Layer(path, method, <<SchemaStage(route)>>)>> ELSE <<>>)
        \o <<Layer(path, method, ownMiddleware)>>
        \o <<Layer(path, method, <<ActionStage(route)>>)>>

\* the layers registered for one method of the route: lines 639-720
methodLayers(route, method) ==
    LET path == route.path.strs[1]
        ownMiddleware == IF route.middleware.kind = "undefined" THEN <<>> ELSE route.middleware.list
        routerMiddleware == IF route.routerMiddleware.has THEN route.routerMiddleware.list ELSE <<>>
    IN  <<Layer(path, method, routerMiddleware)>>
        \o (IF route.schema # "undefined" THEN <<Layer(path, method, <<SchemaStage(route)>>)>> ELSE <<>>)
        \o (IF route.querySchema # "undefined" THEN <<Layer(path, method, <<QuerySchemaStage(route)>>)>> ELSE <<>>)
        \o <<Layer(path, method, ownMiddleware)>>
        \o <<Layer(path, method, <<ActionStage(route)>>)>>

\* addRouteToRouter(route, router): methods.forEach(...)
addRouteToRouter(route, rtr) ==
    rtr \o concatAll([i \in 1 .. Len(route.method.ms) |-> methodLayers(route, route.method.ms[i])])

\* createRouterRaw(routes): routes.forEach(route => addRouteToRouter(route, router))
RECURSIVE createRouterRawReturn(_, _)
createRouterRawReturn(routes, rtr) ==
    IF routes = <<>> THEN rtr
    ELSE createRouterRawReturn(Tail(routes), addRouteToRouter(Head(routes), rtr))

\* return createRouterRaw(routes, debug): lines 412-413
createRouterRaw ==
    /\ phase = "resolved"
    /\ router' = createRouterRawReturn(allRoutes, <<>>)
    /\ phase' = "mounted"
    /\ UNCHANGED <<sync, factories, pc, deps, created, routerMw, made, allRoutes, calls, rejected, arrays>>
    /\ UNCHANGED requestVars

\* the stacks of the layers that match a request, in registration order;
\* a layer bound with 'all' matches every method, and a named parameter of
\* a layer's path matches any one segment
matchedStack(rtr, method, path) ==
    LET matches(pattern) ==
            /\ Len(pattern) = Len(path)
            /\ \A i \in 1 .. Len(path) :
                 \/ pattern[i] = path[i]
                 \/ pattern[i] = ":id" /\ path[i] # Sep
    IN  concatAll([i \in 1 .. Len(rtr) |->
            IF matches(rtr[i].path) /\ rtr[i].method \in {method, "all"}
            THEN rtr[i].stack ELSE <<>>])

----------------------------------------------------------------------------
(* JavaScript values, errors and the koa context.                          *)

\* a value by its kind; the kinds below are the falsy ones
Val(t) == [t |-> t]
Undefined == Val("undefined")
Null == Val("null")
False == Val("false")
Zero == Val("zero")
EmptyString == Val("emptyString")
True == Val("true")
Obj(id) == [t |-> "object", id |-> id]
Arr(id) == [t |-> "array", id |-> id]
Buf(id) == [t |-> "buffer", id |-> id]
\* an object with a read function, a stream for instance
Readable(id) == [t |-> "stream", id |-> id]
Str(id) == [t |-> "string", id |-> id]
Num(id) == [t |-> "number", id |-> id]
\* an object that has a 'success' key
WithSuccess(id) == [t |-> "object", id |-> id, success |-> TRUE]

\* typeof v === 'object'
TypeofObject(v) == v.t \in {"object", "array", "buffer", "stream", "null"}
\* Buffer.isBuffer(v)
IsBuffer(v) == v.t = "buffer"
\* typeof v.read === 'function'
HasRead(v) == v.t = "stream"
\* 'success' in v
HasSuccess(v) == "success" \in DOMAIN v

Falsy(v) == v.t \in {"undefined", "null", "false", "zero", "emptyString"}
Truthy(v) == ~Falsy(v)

\* a || b on values
OrVal(a, b) == IF Truthy(a) THEN a ELSE b

\* an optional number: <<>> is undefined
None == <<>>
Some(n) == <<n>>

\* a || b on optional numbers: undefined and 0 are falsy
OrNum(a, b) == IF a # None /\ a[1] # 0 THEN a ELSE b

\* message texts
Msg(text) == [text |-> text]
InternalServerError == Msg("Internal server error (see logs)")
BodyRequired == Msg("a request body is required")
\* `You did not return anything in the route '${path}'.` +
\* "If this was on purpose, please return 'false'"
MissingReturn(path) ==
    [text |-> "You did not return anything in the route; if on purpose, please return 'false'",
     path |-> path]

\* new BaseError(message, code = 500, statusCode = code): lines 45-60
BaseError(message, code, statusCode) ==
    [ class |-> "BaseError", message |-> message, code |-> Some(code),
      status |-> None, statusCode |-> Some(statusCode), data |-> Undefined,
      internalMessage |-> Undefined ]

\* withData(data): lines 62-65
withData(error, data) == [error EXCEPT !.data = data]

\* err(status, msg, code = -1): lines 72-74
err(status, msg, code) == BaseError(msg, code, status)

\* new Error(message)
Error(message) ==
    [ class |-> "Error", message |-> message, code |-> None,
      status |-> None, statusCode |-> None, data |-> Undefined,
      internalMessage |-> Undefined ]

\* a thrown object literal { status, message }
ThrownObject(status, message) ==
    [ class |-> "object", message |-> message, code |-> None,
      status |-> status, statusCode |-> None, data |-> Undefined,
      internalMessage |-> Undefined ]

\* a thrown string
ThrownString(text) ==
    [ class |-> "string", message |-> Msg(text), code |-> None,
      status |-> None, statusCode |-> None, data |-> Undefined,
      internalMessage |-> Undefined ]

NoError == [class |-> "none"]

\* extract(response, returning) of @lcdev/mapper: the projection of a value
extract(response, returning) == [t |-> "object", extracted |-> response, by |-> returning]

\* ctx.state.meta: undefined, or the one object addMeta creates, a bag of
\* properties. `props` maps the keys the bag has to their values.
NoMeta == [has |-> FALSE]
Bag(props) == [has |-> TRUE, props |-> props]

\* ctx.state.pagination: undefined, or { page, pageSize, total? }
NoPagination == [has |-> FALSE]
Pagination(page, pageSize) == [has |-> TRUE, page |-> page, pageSize |-> pageSize, total |-> <<>>]

\* a reference to the object ctx.state.meta holds, as a field of a body
MetaRef == [t |-> "object", ref |-> "ctx.state.meta"]

\* the statuses koa sends without a body
EmptyStatus == {204, 205, 304}

\* a fresh koa context: status 404 until something sets it
NewContext ==
    [ status |-> 404, explicitStatus |-> FALSE, body |-> Undefined,
      state |-> [hasPropagateErrorWrapping |-> FALSE, meta |-> NoMeta,
                 pagination |-> NoPagination] ]

\* ctx.status = code
setStatus(c, code) == [c EXCEPT !.status = code, !.explicitStatus = TRUE]

\* ctx.body = val: koa turns a null body into 204 and any other into 200
\* unless the status was set explicitly
setBody(c, val) ==
    IF val.t \in {"undefined", "null"}
    THEN IF c.status \in EmptyStatus
         THEN [c EXCEPT !.body = val]
         ELSE [c EXCEPT !.body = val, !.status = 204, !.explicitStatus = TRUE]
    ELSE IF c.explicitStatus
         THEN [c EXCEPT !.body = val]
         ELSE [c EXCEPT !.body = val, !.status = 200]

----------------------------------------------------------------------------
(* The handlers of index.ts as functions of the context.                   *)

\* filterInternalMessages: lines 724-734
filterInternalMessages(status, errorMessage, includeInternalErrors) ==
    IF status >= 500 /\ ~includeInternalErrors THEN InternalServerError ELSE errorMessage

\* the catch block without the redaction of lines 714-716
normalizeError_NoRedaction(thrownValue, NODE_ENV) ==
    LET error == IF thrownValue.class = "string" THEN Error(thrownValue.message) ELSE thrownValue
    IN  [error EXCEPT
            !.code = OrNum(error.code, Some(-1)),
            !.status = OrNum(error.status, OrNum(error.statusCode, Some(500))),
            !.internalMessage = error.message]

\* the catch block rethrowing the error with the code and status it came with
normalizeError_NoDefaults(thrownValue, NODE_ENV) ==
    LET error == IF thrownValue.class = "string" THEN Error(thrownValue.message) ELSE thrownValue
    IN  [error EXCEPT
            !.internalMessage = error.message,
            !.message = IF error.class # "BaseError" /\ NODE_ENV = "production"
                        THEN InternalServerError ELSE error.message]

\* the catch block of the action wrapper: lines 704-718
normalizeError(thrownValue, NODE_ENV) ==
    LET error == IF thrownValue.class = "string" THEN Error(thrownValue.message) ELSE thrownValue
        status == OrNum(error.status, OrNum(error.statusCode, Some(500)))
    IN  [error EXCEPT
            !.code = OrNum(error.code, Some(-1)),
            !.status = status,
            !.internalMessage = error.message,
            !.message = IF error.class # "BaseError" /\ NODE_ENV = "production"
                        THEN InternalServerError ELSE error.message]

\* the try block without its last branch: a falsy body is left at its status
interpretResponse_No204(c, response, path, returning) ==
    IF Truthy(response) \/ c.status = 204
    THEN [ ctx |-> setBody(c, IF returning # "undefined"
                              THEN extract(response, returning)
                              ELSE OrVal(response, EmptyString)),
           thrown |-> NoError ]
    ELSE IF response = Undefined /\ c.body = Undefined
    THEN [ ctx |-> c, thrown |-> ThrownObject(Some(500), MissingReturn(path)) ]
    ELSE [ ctx |-> c, thrown |-> NoError ]

\* the try block assigning the returned value whatever it is
interpretResponse_AlwaysAssign(c, response, path, returning) ==
    IF response = Undefined /\ c.body = Undefined /\ c.status # 204
    THEN [ ctx |-> c, thrown |-> ThrownObject(Some(500), MissingReturn(path)) ]
    ELSE [ ctx |-> setBody(c, IF returning # "undefined"
                              THEN extract(response, returning)
                              ELSE OrVal(response, EmptyString)),
           thrown |-> NoError ]

\* the try block assigning the returned value without the projection
interpretResponse_NoExtract(c, response, path, returning) ==
    IF Truthy(response) \/ c.status = 204
    THEN [ ctx |-> setBody(c, OrVal(response, EmptyString)), thrown |-> NoError ]
    ELSE IF response = Undefined /\ c.body = Undefined
    THEN [ ctx |-> c, thrown |-> ThrownObject(Some(500), MissingReturn(path)) ]
    ELSE IF Falsy(c.body)
    THEN [ ctx |-> setStatus(c, 204), thrown |-> NoError ]
    ELSE [ ctx |-> c, thrown |-> NoError ]

\* the try block keeping a truthy body the action assigned
interpretResponse_KeepAssigned(c, response, path, returning) ==
    IF (Truthy(response) \/ c.status = 204) /\ Falsy(c.body)
    THEN [ ctx |-> setBody(c, IF returning # "undefined"
                              THEN extract(response, returning)
                              ELSE OrVal(response, EmptyString)),
           thrown |-> NoError ]
    ELSE IF response = Undefined /\ c.body = Undefined
    THEN [ ctx |-> c, thrown |-> ThrownObject(Some(500), MissingReturn(path)) ]
    ELSE IF Falsy(c.body)
    THEN [ ctx |-> setStatus(c, 204), thrown |-> NoError ]
    ELSE [ ctx |-> c, thrown |-> NoError ]

\* the try block assigning only a truthy returned value
interpretResponse_TruthyOnly(c, response, path, returning) ==
    IF Truthy(response)
    THEN [ ctx |-> setBody(c, IF returning # "undefined"
                              THEN extract(response, returning)
                              ELSE OrVal(response, EmptyString)),
           thrown |-> NoError ]
    ELSE IF response = Undefined /\ c.body = Undefined
    THEN [ ctx |-> c, thrown |-> ThrownObject(Some(500), MissingReturn(path)) ]
    ELSE IF Falsy(c.body)
    THEN [ ctx |-> setStatus(c, 204), thrown |-> NoError ]
    ELSE [ ctx |-> c, thrown |-> NoError ]

\* the try block of the action wrapper once the action has returned
\* `response`: lines 683-702. The result is the context and what is thrown.
interpretResponse(c, response, path, returning) ==
    IF Truthy(response) \/ c.status = 204
    THEN [ ctx |-> setBody(c, IF returning # "undefined"
                              THEN extract(response, returning)
                              ELSE OrVal(response, EmptyString)),
           thrown |-> NoError ]
    ELSE IF response = Undefined /\ c.body = Undefined
    THEN [ ctx |-> c, thrown |-> ThrownObject(Some(500), MissingReturn(path)) ]
    ELSE IF Falsy(c.body)
    THEN [ ctx |-> setStatus(c, 204), thrown |-> NoError ]
    ELSE [ ctx |-> c, thrown |-> NoError ]

\* Object.assign(target, properties) on property maps
assign(target, properties) ==
    [key \in DOMAIN target \cup DOMAIN properties |->
        IF key \in DOMAIN properties THEN properties[key] ELSE target[key]]

\* addMeta replacing the bag by the properties passed
addMeta_Replace(c, properties) == [c EXCEPT !.state.meta = Bag(properties)]

\* addMeta(ctx, properties): lines 587-590
addMeta(c, properties) ==
    LET meta == IF c.state.meta.has THEN c.state.meta ELSE Bag(<<>>)
    IN  [c EXCEPT !.state.meta = Bag(assign(meta.props, properties))]

\* propagateValues without the check for a 'success' key
wrapValues_NoSuccessCheck(c) ==
    LET body == c.body
    IN  IF Truthy(body) /\ TypeofObject(body) /\ ~IsBuffer(body) /\ ~HasRead(body)
        THEN setBody(c, [ t       |-> "object",
                          success |-> TRUE,
                          data    |-> body,
                          meta    |-> IF c.state.meta.has THEN MetaRef ELSE Undefined ])
        ELSE c

\* propagateValues without the check for a Buffer
wrapValues_NoBufferCheck(c) ==
    LET body == c.body
    IN  IF Truthy(body) /\ TypeofObject(body) /\ ~HasRead(body) /\ ~HasSuccess(body)
        THEN setBody(c, [ t       |-> "object",
                          success |-> TRUE,
                          data    |-> body,
                          meta    |-> IF c.state.meta.has THEN MetaRef ELSE Undefined ])
        ELSE c

\* propagateValues after `await next()` has returned: lines 565-581.
\* `meta` is the object ctx.state.meta holds at that moment, not a copy.
wrapValues(c) ==
    LET body == c.body
    IN  IF Truthy(body) /\ TypeofObject(body)
        THEN IF IsBuffer(body) THEN c
             ELSE IF HasRead(body) THEN c
             ELSE IF HasSuccess(body) THEN c
             ELSE setBody(c, [ t       |-> "object",
                               success |-> TRUE,
                               data    |-> body,
                               meta    |-> IF c.state.meta.has THEN MetaRef ELSE Undefined ])
        ELSE c

\* the body propagateErrors builds: lines 537-544
errorEnvelope(error, status, includeInternalErrors) ==
    [ t       |-> "object",
      success |-> FALSE,
      code    |-> OrNum(error.code, Some(status))[1],
      message |-> filterInternalMessages(status, error.message, includeInternalErrors),
      data    |-> OrVal(error.data, Null) ]

\* the catch block of propagateErrors (without transform): lines 537-548
catchError(c, error, includeInternalErrors) ==
    LET status == OrNum(error.status, OrNum(error.statusCode, Some(500)))[1]
    IN  setBody(setStatus(c, status), errorEnvelope(error, status, includeInternalErrors))

\* what the function named `transform` returns for (error, body, ctx)
transformed(transform, error, body) ==
    [t |-> "object", transform |-> transform, error |-> error, body |-> body]

\* the catch block of the instance `stage`: lines 537-548
catchErrorOf(stage, c, error) ==
    LET status == OrNum(error.status, OrNum(error.statusCode, Some(500)))[1]
        body == errorEnvelope(error, status, stage.includeInternalErrors)
    IN  IF stage.transform = "undefined"
        THEN catchError(c, error, stage.includeInternalErrors)
        ELSE setBody(setStatus(c, status), transformed(stage.transform, error, body))

----------------------------------------------------------------------------
(* pagination.ts (src/unnamed/part_002): paginate and addPagination.       *)

\* a JavaScript number: a finite one, NaN or Infinity
Finite(n) == [finite |-> TRUE, n |-> n]
NaN == [finite |-> FALSE, n |-> 0]
Infinity == [finite |-> FALSE, n |-> 1]

\* a query parameter: absent, or a string, the sequence of its characters
Absent == [given |-> FALSE, str |-> <<>>]
Given(str) == [given |-> TRUE, str |-> str]

Digits == <<"0", "1", "2", "3", "4", "5", "6", "7", "8", "9">>
IsDigit(ch) == \E i \in 1 .. Len(Digits) : Digits[i] = ch
DigitValue(ch) == (CHOOSE i \in 1 .. Len(Digits) : Digits[i] = ch) - 1

\* the pattern '^\d+$' of paginationSchema
MatchesDigits(str) == str # <<>> /\ \A i \in 1 .. Len(str) : IsDigit(str[i])

\* validationSchema.validate(ctx.query) does not throw: page is required,
\* count is not, both are strings of digits
validQuery(query) ==
    /\ query.page.given /\ MatchesDigits(query.page.str)
    /\ query.count.given => MatchesDigits(query.count.str)

\* the number the leading digits of a string spell
RECURSIVE leadingDigits(_, _)
leadingDigits(str, value) ==
    IF str = <<>> \/ ~IsDigit(Head(str)) THEN value
    ELSE leadingDigits(Tail(str), 10 * value + DigitValue(Head(str)))

\* parseFloat of a string without sign, point or exponent
parseFloat(str) ==
    IF str = <<>> \/ ~IsDigit(Head(str)) THEN NaN ELSE Finite(leadingDigits(str, 0))

\* Math.ceil(total / pageSize), total being a finite number
ceilDivide(total, pageSize) ==
    IF ~pageSize.finite THEN NaN
    ELSE IF pageSize.n = 0 THEN (IF total = 0 THEN NaN ELSE Infinity)
    ELSE Finite((total + pageSize.n - 1) \div pageSize.n)

\* paginate with no check after `await next()`
paginateAfter_NoCheck(c, pageSize) ==
    LET total == IF c.state.pagination.has /\ c.state.pagination.total # <<>>
                 THEN c.state.pagination.total[1] ELSE 0
    IN  [ ctx    |-> addMeta(c, [total |-> total, pages |-> ceilDivide(total, pageSize)]),
          thrown |-> NoError ]

\* addPagination(ctx, total)
addPagination(c, total) ==
    IF ~c.state.pagination.has
    THEN [ ctx    |-> c,
           thrown |-> err(500, Msg("Called addPagination without wrapping pagination middleware"), -1) ]
    ELSE [ ctx |-> [c EXCEPT !.state.pagination.total = <<total>>], thrown |-> NoError ]

\* paginate without the check of the page size against maxLimit
paginateBefore_NoLimit(c, query, defaultCount, maxLimit) ==
    LET page == parseFloat(query.page.str)
        pageSize == IF query.count.given /\ query.count.str # <<>>
                    THEN parseFloat(query.count.str)
                    ELSE Finite(defaultCount)
        Throw(message) == [ctx |-> c, thrown |-> err(400, Msg(message), -1), pageSize |-> pageSize]
    IN  IF ~validQuery(query)
        THEN Throw("Query provided did not include correct page and/or pageSize for pagination")
        ELSE IF page = NaN
        THEN Throw("Page provided was invalid")
        ELSE IF page.finite /\ page.n < 1
        THEN Throw("Pagination page was < 1")
        ELSE [ ctx      |-> [c EXCEPT !.state.pagination =
                                Pagination(Finite(page.n - 1), pageSize)],
               thrown   |-> NoError,
               pageSize |-> pageSize ]

\* paginate(defaultCount, maxLimit), up to its `await next()`
paginateBefore(c, query, defaultCount, maxLimit) ==
    LET page == parseFloat(query.page.str)
        pageSize == IF query.count.given /\ query.count.str # <<>>
                    THEN parseFloat(query.count.str)
                    ELSE Finite(defaultCount)
        Throw(message) == [ctx |-> c, thrown |-> err(400, Msg(message), -1), pageSize |-> pageSize]
    IN  IF ~validQuery(query)
        THEN Throw("Query provided did not include correct page and/or pageSize for pagination")
        ELSE IF pageSize.finite /\ pageSize.n > maxLimit
        THEN Throw("Pagination limit was too high")
        ELSE IF page = NaN
        THEN Throw("Page provided was invalid")
        ELSE IF page.finite /\ page.n < 1
        THEN Throw("Pagination page was < 1")
        ELSE [ ctx      |-> [c EXCEPT !.state.pagination =
                                Pagination(Finite(page.n - 1), pageSize)],
               thrown   |-> NoError,
               pageSize |-> pageSize ]

\* paginate once `await next()` has returned, pageSize being its local
paginateAfter(c, pageSize) ==
    IF ~c.state.pagination.has
    THEN [ctx |-> c, thrown |-> err(500, Msg("Somehow, pagination state was deleted"), -1)]
    ELSE IF c.state.pagination.total = <<>>
    THEN [ ctx    |-> c,
           thrown |-> err(500, Msg("Forgot to call addPagination in action wrapped by pagination middleware"), -1) ]
    ELSE LET total == c.state.pagination.total[1]
         IN  [ ctx    |-> addMeta(c, [total |-> total, pages |-> ceilDivide(total, pageSize)]),
               thrown |-> NoError ]

----------------------------------------------------------------------------
(* One request through the chain of a mounted route.                       *)

\* the mounted routes a request is sent to: a resolved route with up to
\* MaxWrap propagateErrors instances and up to MaxRouterMw middleware
\* inherited from its factories (owner i: the factory at depth i), with or
\* without schema, querySchema and returning, and up to MaxRouteMw
\* middleware of its own
WrapperLists == UNION { [1 .. k -> BOOLEAN] : k \in 0 .. MaxWrap }

MountedRoute(wrappers, m, n, sch, qsch, ret) ==
    [ Route(0, 1, OnePath(<<Sep, "test">>), MethodArray(2),
            MiddlewareArray([i \in 1 .. n |-> Mw(0, i)]), sch, qsch, ret)
      EXCEPT !.routerMiddleware =
          [ has  |-> TRUE,
            list |-> [i \in 1 .. Len(wrappers) |-> PropagateErrors(wrappers[i])]
                     \o [i \in 1 .. m |-> Mw(i, 1)] ] ]

MountedRoutes ==
    { MountedRoute(w, m, n, sch, qsch, ret) :
        w \in WrapperLists, m \in 0 .. MaxRouterMw, n \in 0 .. MaxRouteMw,
        sch \in {"undefined", "schema"}, qsch \in {"undefined", "querySchema"},
        ret \in {"undefined", "returning"} }

\* what a user middleware may do: await next(), return without calling
\* next, or throw
MiddlewareOutcomes == {"next", "return", "throw"}

\* an entry of ajvValidate.errors
AjvError(dataPath, message, params) ==
    [dataPath |-> dataPath, message |-> message, params |-> params]

AdditionalProperty(name) ==
    AjvError("", "should NOT have additional properties", [additionalProperty |-> name])
RequiredProperty(name) ==
    AjvError("", "should have required property", [missingProperty |-> name])
WrongType(dataPath, type) ==
    AjvError(dataPath, "should be of type", [type |-> type])

\* what ajvValidate.errors may hold once ajvValidate(body) has returned false
AjvErrors ==
    { <<AdditionalProperty("foo")>>,
      <<RequiredProperty("a")>>,
      <<WrongType(".a", "boolean"), AdditionalProperty("foo")>> }

\* every entry is `${dataPath}: ${message}`
validationEntry_DataPath(error) == <<error.dataPath, ": ", error.message>>

\* the callback of errors.map(...): lines 138-144; a template string is the
\* sequence of its pieces
validationEntry(error) ==
    IF "additionalProperty" \in DOMAIN error.params
    THEN <<error.message, ": ", error.params.additionalProperty>>
    ELSE <<error.dataPath, ": ", error.message>>

\* strings.join(separator)
RECURSIVE joinStrings(_, _)
joinStrings(strings, separator) ==
    IF strings = <<>> THEN <<>>
    ELSE IF Len(strings) = 1 THEN Head(strings)
    ELSE Head(strings) \o <<separator>> \o joinStrings(Tail(strings), separator)

\* `validation error: [${err}]`
ValidationError(joined) == [text |-> "validation error: [${err}]", err |-> joined]

\* JSONSchema.validate when ajvValidate(body) is false: lines 128-148
JSONSchemaValidate(errors) ==
    LET joined == joinStrings([i \in 1 .. Len(errors) |-> validationEntry(errors[i])], ", ")
    IN  [ok |-> FALSE, error |-> BaseError(ValidationError(joined), 400, 400), ajv |-> errors]

\* what a Schema's validate may return: true, the BaseError of JSONSchema
\* and YupSchema (lines 147, 166), or the Error of another implementation
ValidateResults ==
    { [ok |-> TRUE, error |-> NoError, ajv |-> <<>>],
      [ok |-> FALSE, error |-> BaseError(Msg("validation error: [...]"), 400, 400), ajv |-> <<>>],
      [ok |-> FALSE, error |-> Error(Msg("invalid")), ajv |-> <<>>] }
    \cup { JSONSchemaValidate(errors) : errors \in AjvErrors }

\* what an action may throw
Throwables ==
    { withData(err(status, Msg("foo"), code), data) :
        status \in {400, 500}, code \in {-1, 0, 7}, data \in {Undefined, Zero, Obj("data")} }
    \cup { Error(Msg("secret")), ThrownString("secret"),
           ThrownObject(Some(403), Msg("secret")), ThrownObject(None, Msg("secret")) }

\* what an action may do: set ctx.status to 204 or not, assign ctx.body or
\* not, then return a value; or throw
ActionBehaviours ==
    { [kind |-> "return", setStatus |-> st, setBody |-> sb, value |-> v, error |-> NoError,
       meta |-> <<>>, pagination |-> <<>>] :
        st \in {None, Some(204)},
        sb \in {None, <<Obj("assigned")>>, <<EmptyString>>, <<Null>>},
        v \in {Undefined, False, Zero, Obj("returned")} }
    \cup
    { [kind |-> "throw", setStatus |-> None, setBody |-> None, value |-> Undefined, error |-> e,
       meta |-> <<>>, pagination |-> <<>>] :
        e \in Throwables }

\* the properties an addMeta call may pass
PropertiesSet == { [page |-> 1], [page |-> 2, pages |-> 100] }

\* at one place of the code: no addMeta call, or one
MetaCalls == {<<>>} \cup { <<properties>> : properties \in PropertiesSet }

\* what an action returns or assigns below propagateValues
BodyValues ==
    { Obj("returned"), Arr("returned"), Buf("returned"), Readable("returned"),
      WithSuccess("returned"), Str("returned"), Num("returned"), True }

\* what an action may do below propagateValues: call addMeta or not, then
\* return a body, assign one and return nothing, return false, or throw,
\* having assigned a body or not
ValueBehaviours ==
    { [kind |-> "return", setStatus |-> None, setBody |-> None, value |-> v, error |-> NoError,
       meta |-> calls_, pagination |-> <<>>] :
        v \in BodyValues \cup {False}, calls_ \in MetaCalls }
    \cup
    { [kind |-> "return", setStatus |-> None, setBody |-> <<Obj("assigned")>>,
       value |-> Undefined, error |-> NoError, meta |-> calls_, pagination |-> <<>>] :
        calls_ \in MetaCalls }
    \cup
    { [kind |-> "throw", setStatus |-> None, setBody |-> sb, value |-> Undefined,
       error |-> withData(err(419, Msg("my error"), -1), Obj("data")), meta |-> <<>>,
       pagination |-> <<>>] :
        sb \in {None, <<Obj("assigned")>>} }

\* what an action does with ctx.state.pagination first of all: nothing,
\* addPagination(ctx, total), or delete ctx.state.pagination
PaginationUses ==
    { <<>>, <<[op |-> "delete"]>> }
    \cup { <<[op |-> "addPagination", total |-> total]>> : total \in 0 .. MaxTotal }

\* what an action may do below paginate: use ctx.state.pagination, then
\* return its results or throw
PaginateBehaviours ==
    { [kind |-> "return", setStatus |-> None, setBody |-> None, value |-> Arr("results"),
       error |-> NoError, meta |-> <<>>, pagination |-> use] :
        use \in PaginationUses }
    \cup
    { [kind |-> "throw", setStatus |-> None, setBody |-> None, value |-> Undefined,
       error |-> err(400, Msg("foo"), -1), meta |-> <<>>, pagination |-> use] :
        use \in { <<>>, <<[op |-> "addPagination", total |-> MaxTotal]>> } }

\* what an action may do while another request is under way: call addMeta
\* or not, then return a body or throw
ConcurrentBehaviours ==
    { [kind |-> "return", setStatus |-> None, setBody |-> None, value |-> Obj("returned"),
       error |-> NoError, meta |-> calls_, pagination |-> <<>>] :
        calls_ \in MetaCalls }
    \cup
    { [kind |-> "throw", setStatus |-> None, setBody |-> None, value |-> Undefined,
       error |-> err(419, Msg("my error"), -1), meta |-> calls_, pagination |-> <<>>] :
        calls_ \in {<<>>, <<[page |-> 1]>>} }

\* what an action may do below nested propagateErrors instances: return a
\* body, or throw an error of status 400 or 500, a BaseError or not
NestedBehaviours ==
    { [kind |-> "return", setStatus |-> None, setBody |-> None, value |-> Obj("returned"),
       error |-> NoError, meta |-> <<>>, pagination |-> <<>>] }
    \cup
    { [kind |-> "throw", setStatus |-> None, setBody |-> None, value |-> Undefined,
       error |-> e, meta |-> <<>>, pagination |-> <<>>] :
        e \in { err(400, Msg("foo"), -1), err(500, Msg("foo"), 7), Error(Msg("secret")) } }

\* the phases in which a request is under way
RequestPhases == {"request", "values", "paginate", "concurrent", "nested", "shared"}

\* the actions drawn for a request of the phase
Behaviours ==
    CASE phase = "values" -> ValueBehaviours
      [] phase = "paginate" -> PaginateBehaviours
      [] phase = "concurrent" -> ConcurrentBehaviours
      [] phase = "nested" -> NestedBehaviours
      [] OTHER -> ActionBehaviours

NoAction == [kind |-> "none"]

\* nothing has started, no validator was called, no propagateErrors
\* instance was entered, nothing was caught, addMeta was not called,
\* propagateValues has not looked at a body, no transform was called
NewLog ==
    [started |-> {}, called |-> {}, passed |-> {}, entered |-> <<>>, caught |-> <<>>,
     addMeta |-> <<>>, wrapped |-> <<>>, ajv |-> <<>>, transforms |-> <<>>]

NodeEnvs == {"production", "development"}

\* what a request owns: koa makes a context for each request and passes it,
\* with the chain's continuation, to every stage
Suspended(req, decl, stages, fs, m, c, error, l, a, sent) ==
    [request |-> req, declared |-> decl, rest |-> stages, frames |-> fs, mode |-> m,
     ctx |-> c, thrown |-> error, log |-> l, act |-> a, delivered |-> sent]

\* no second request is under way
NoRequest ==
    Suspended([method |-> "get", path |-> <<>>, body |-> Undefined],
              [schema |-> FALSE, querySchema |-> FALSE, returning |-> FALSE],
              <<>>, <<>>, "none", NewContext, NoError, NewLog, NoAction, [status |-> 0])

\* what the action's use of ctx.state.pagination leaves: the context, and
\* the error addPagination threw
usePagination(c, use) ==
    IF use = <<>> THEN [ctx |-> c, thrown |-> NoError]
    ELSE IF use[1].op = "delete"
    THEN [ctx |-> [c EXCEPT !.state.pagination = NoPagination], thrown |-> NoError]
    ELSE addPagination(c, use[1].total)

\* the context after the action's own assignments
afterAction(c, b) ==
    LET c0 == IF b.meta = <<>> THEN c ELSE addMeta(c, b.meta[1])
        c1 == IF b.setStatus = None THEN c0 ELSE setStatus(c0, b.setStatus[1])
    IN  IF b.setBody = None THEN c1 ELSE setBody(c1, b.setBody[1])

\* which of addRouteToRouter's five registrations a stage belongs to
StageClass(stage) ==
    CASE stage.kind \in {"propagateErrors", "propagateValues", "addMeta"} -> "routerMiddleware"
      [] stage.kind = "user" -> IF stage.owner = 0 THEN "middleware" ELSE "routerMiddleware"
      [] stage.kind = "paginate" -> "middleware"
      [] OTHER -> stage.kind

Started(stage) == [log EXCEPT !.started = @ \cup {StageClass(stage)}]

Dispatching(kind) ==
    /\ phase \in RequestPhases
    /\ mode = "next"
    /\ rest # <<>>
    /\ Head(rest).kind = kind

Settling(m, kind) ==
    /\ phase \in RequestPhases
    /\ mode = m
    /\ frames # <<>>
    /\ frames[Len(frames)].kind = kind

Pop(fs) == SubSeq(fs, 1, Len(fs) - 1)

\* propagateErrors wrapping the request whatever ctx.state says
propagateErrors_NoGuard ==
    /\ Dispatching("propagateErrors")
    /\ ctx' = [ctx EXCEPT !.state.hasPropagateErrorWrapping = TRUE]
    /\ frames' = Append(frames, Head(rest))
    /\ rest' = Tail(rest)
    /\ log' = [Started(Head(rest)) EXCEPT
                  !.entered = Append(@, Head(rest).includeInternalErrors)]
    /\ UNCHANGED <<request, declared, mode, thrown, nodeEnv, act, emitted, delivered>>
    /\ UNCHANGED <<composeVars, other>>

\* propagateErrors keeping its guard where every request finds it
propagateErrors_SharedGuard ==
    /\ Dispatching("propagateErrors")
    /\ IF ctx.state.hasPropagateErrorWrapping \/ other.ctx.state.hasPropagateErrorWrapping
       THEN UNCHANGED <<ctx, frames>>
       ELSE /\ ctx' = [ctx EXCEPT !.state.hasPropagateErrorWrapping = TRUE]
            /\ frames' = Append(frames, Head(rest))
    /\ rest' = Tail(rest)
    /\ log' = [Started(Head(rest)) EXCEPT
                  !.entered = Append(@, Head(rest).includeInternalErrors)]
    /\ UNCHANGED <<request, declared, mode, thrown, nodeEnv, act, emitted, delivered>>
    /\ UNCHANGED <<composeVars, other>>

\* propagateErrors, up to its await: lines 528-535
propagateErrors ==
    /\ Dispatching("propagateErrors")
    /\ IF ctx.state.hasPropagateErrorWrapping
       THEN UNCHANGED <<ctx, frames>>
       ELSE /\ ctx' = [ctx EXCEPT !.state.hasPropagateErrorWrapping = TRUE]
            /\ frames' = Append(frames, Head(rest))
    /\ rest' = Tail(rest)
    /\ log' = [Started(Head(rest)) EXCEPT
                  !.entered = Append(@, Head(rest).includeInternalErrors)]
    /\ UNCHANGED <<request, declared, mode, thrown, nodeEnv, act, emitted, delivered>>
    /\ UNCHANGED <<composeVars, other>>

\* propagateErrors, `await next()` returned: nothing is left to do
propagateErrorsReturn ==
    /\ Settling("return", "propagateErrors")
    /\ frames' = Pop(frames)
    /\ UNCHANGED <<request, declared, rest, mode, ctx, thrown, nodeEnv, log, act, emitted, delivered>>
    /\ UNCHANGED <<composeVars, other>>

\* propagateErrors, `await next()` threw: lines 536-552
propagateErrorsCatch ==
    /\ Settling("throw", "propagateErrors")
    /\ ctx' = catchErrorOf(frames[Len(frames)], ctx, thrown)
    /\ emitted' = Append(emitted, [error |-> thrown, response |-> ctx'.body])
    /\ frames' = Pop(frames)
    /\ mode' = "return"
    /\ log' = [log EXCEPT
                  !.caught = Append(@, frames[Len(frames)].includeInternalErrors),
                  !.transforms = IF frames[Len(frames)].transform = "undefined" THEN @
                                 ELSE Append(@, frames[Len(frames)].transform)]
    /\ UNCHANGED <<request, declared, rest, thrown, nodeEnv, act, delivered>>
    /\ UNCHANGED <<composeVars, other>>

\* propagateValues, up to its await: line 563
propagateValues ==
    /\ Dispatching("propagateValues")
    /\ frames' = Append(frames, Head(rest))
    /\ rest' = Tail(rest)
    /\ log' = Started(Head(rest))
    /\ UNCHANGED <<request, declared, mode, ctx, thrown, nodeEnv, act, emitted, delivered>>
    /\ UNCHANGED <<composeVars, other>>

\* propagateValues, `await next()` returned: lines 565-581
propagateValuesReturn ==
    /\ Settling("return", "propagateValues")
    /\ ctx' = wrapValues(ctx)
    /\ frames' = Pop(frames)
    /\ log' = [log EXCEPT !.wrapped = Append(@, [body |-> ctx.body, meta |-> ctx.state.meta])]
    /\ UNCHANGED <<request, declared, rest, mode, thrown, nodeEnv, act, emitted, delivered>>
    /\ UNCHANGED <<composeVars, other>>

\* propagateValues, `await next()` threw: the error passes through
propagateValuesThrow ==
    /\ Settling("throw", "propagateValues")
    /\ frames' = Pop(frames)
    /\ UNCHANGED <<request, declared, rest, mode, ctx, thrown, nodeEnv, log, act, emitted,
                   delivered>>
    /\ UNCHANGED <<composeVars, other>>

\* a middleware of the application calling addMeta, or not, before its
\* `await next()`
addMetaMiddleware ==
    /\ Dispatching("addMeta")
    /\ \E before \in MetaCalls :
         /\ ctx' = IF before = <<>> THEN ctx ELSE addMeta(ctx, before[1])
         /\ log' = [Started(Head(rest)) EXCEPT !.addMeta = @ \o before]
    /\ frames' = Append(frames, Head(rest))
    /\ rest' = Tail(rest)
    /\ UNCHANGED <<request, declared, mode, thrown, nodeEnv, act, emitted, delivered>>
    /\ UNCHANGED <<composeVars, other>>

\* the same middleware calling addMeta, or not, after `await next()` returned
addMetaMiddlewareReturn ==
    /\ Settling("return", "addMeta")
    /\ \E after \in MetaCalls :
         /\ ctx' = IF after = <<>> THEN ctx ELSE addMeta(ctx, after[1])
         /\ log' = [log EXCEPT !.addMeta = @ \o after]
    /\ frames' = Pop(frames)
    /\ UNCHANGED <<request, declared, rest, mode, thrown, nodeEnv, act, emitted, delivered>>
    /\ UNCHANGED <<composeVars, other>>

\* the same middleware when `await next()` threw: the error passes through
addMetaMiddlewareThrow ==
    /\ Settling("throw", "addMeta")
    /\ frames' = Pop(frames)
    /\ UNCHANGED <<request, declared, rest, mode, ctx, thrown, nodeEnv, log, act, emitted,
                   delivered>>
    /\ UNCHANGED <<composeVars, other>>

\* paginate(defaultCount, maxLimit), up to its `await next()`
paginate ==
    /\ Dispatching("paginate")
    /\ LET stage == Head(rest)
           r == paginateBefore(ctx, request.query, stage.defaultCount, stage.maxLimit)
       IN  /\ log' = Started(stage)
           /\ ctx' = r.ctx
           /\ IF r.thrown # NoError
              THEN /\ thrown' = r.thrown
                   /\ mode' = "throw"
                   /\ UNCHANGED <<rest, frames>>
              ELSE /\ frames' = Append(frames, [kind |-> "paginate", pageSize |-> r.pageSize])
                   /\ rest' = Tail(rest)
                   /\ UNCHANGED <<mode, thrown>>
    /\ UNCHANGED <<request, declared, nodeEnv, act, emitted, delivered>>
    /\ UNCHANGED <<composeVars, other>>

\* paginate once `await next()` has returned
paginateReturn ==
    /\ Settling("return", "paginate")
    /\ LET r == paginateAfter(ctx, frames[Len(frames)].pageSize)
       IN  /\ ctx' = r.ctx
           /\ IF r.thrown # NoError
              THEN /\ thrown' = r.thrown
                   /\ mode' = "throw"
                   /\ UNCHANGED log
              ELSE /\ log' = [log EXCEPT !.addMeta =
                                 Append(@, [key \in {"total", "pages"} |-> ctx'.state.meta.props[key]])]
                   /\ UNCHANGED <<mode, thrown>>
    /\ frames' = Pop(frames)
    /\ UNCHANGED <<request, declared, rest, nodeEnv, act, emitted, delivered>>
    /\ UNCHANGED <<composeVars, other>>

\* paginate when `await next()` threw: the error passes through
paginateThrow ==
    /\ Settling("throw", "paginate")
    /\ frames' = Pop(frames)
    /\ UNCHANGED <<request, declared, rest, mode, ctx, thrown, nodeEnv, log, act, emitted,
                   delivered>>
    /\ UNCHANGED <<composeVars, other>>

\* a middleware whose error goes through the steps of the action wrapper's
\* catch block
userMiddleware_Normalized ==
    /\ Dispatching("user")
    /\ log' = Started(Head(rest))
    /\ \E outcome \in MiddlewareOutcomes :
         CASE outcome = "next" ->
                /\ rest' = Tail(rest)
                /\ UNCHANGED <<mode, thrown>>
           [] outcome = "return" ->
                /\ mode' = "return"
                /\ UNCHANGED <<rest, thrown>>
           [] outcome = "throw" ->
                /\ mode' = "throw"
                /\ thrown' = normalizeError(Error(Msg("middleware failed")), nodeEnv)
                /\ UNCHANGED rest
    /\ UNCHANGED <<request, declared, frames, ctx, nodeEnv, act, emitted, delivered>>
    /\ UNCHANGED <<composeVars, other>>

\* a middleware of the application, a factory's or the route's own
userMiddleware ==
    /\ Dispatching("user")
    /\ log' = Started(Head(rest))
    /\ \E outcome \in MiddlewareOutcomes :
         CASE outcome = "next" ->
                /\ rest' = Tail(rest)
                /\ UNCHANGED <<mode, thrown>>
           [] outcome = "return" ->
                /\ mode' = "return"
                /\ UNCHANGED <<rest, thrown>>
           [] outcome = "throw" ->
                /\ mode' = "throw"
                /\ thrown' = Error(Msg("middleware failed"))
                /\ UNCHANGED rest
    /\ UNCHANGED <<request, declared, frames, ctx, nodeEnv, act, emitted, delivered>>
    /\ UNCHANGED <<composeVars, other>>

\* the schema stage without the check of lines 649-651
validateBody_NoBodyCheck ==
    /\ Dispatching("schema")
    /\ \E result \in ValidateResults :
         /\ log' = [Started(Head(rest)) EXCEPT
                       !.called = @ \cup {"schema"},
                       !.passed = IF result.ok THEN @ \cup {"schema"} ELSE @,
                            !.ajv = result.ajv]
         /\ IF result.ok
            THEN /\ rest' = Tail(rest)
                 /\ UNCHANGED <<mode, thrown>>
            ELSE /\ thrown' = result.error
                 /\ mode' = "throw"
                 /\ UNCHANGED rest
    /\ UNCHANGED <<request, declared, frames, ctx, nodeEnv, act, emitted, delivered>>
    /\ UNCHANGED <<composeVars, other>>

\* the stage registered for route.schema: lines 646-660
validateBody ==
    /\ Dispatching("schema")
    /\ IF request.body = Undefined
       THEN /\ thrown' = BaseError(BodyRequired, 400, 400)
            /\ mode' = "throw"
            /\ log' = Started(Head(rest))
            /\ UNCHANGED rest
       ELSE \E result \in ValidateResults :
              /\ log' = [Started(Head(rest)) EXCEPT
                            !.called = @ \cup {"schema"},
                            !.passed = IF result.ok THEN @ \cup {"schema"} ELSE @,
                            !.ajv = result.ajv]
              /\ IF result.ok
                 THEN /\ rest' = Tail(rest)
                      /\ UNCHANGED <<mode, thrown>>
                 ELSE /\ thrown' = result.error
                      /\ mode' = "throw"
                      /\ UNCHANGED rest
    /\ UNCHANGED <<request, declared, frames, ctx, nodeEnv, act, emitted, delivered>>
    /\ UNCHANGED <<composeVars, other>>

\* the querySchema stage calling next whatever validate returned
validateQuery_IgnoreResult ==
    /\ Dispatching("querySchema")
    /\ \E result \in ValidateResults :
         log' = [Started(Head(rest)) EXCEPT
                    !.called = @ \cup {"querySchema"},
                    !.passed = IF result.ok THEN @ \cup {"querySchema"} ELSE @,
                    !.ajv = result.ajv]
    /\ rest' = Tail(rest)
    /\ UNCHANGED <<request, declared, frames, mode, ctx, thrown, nodeEnv, act, emitted, delivered>>
    /\ UNCHANGED <<composeVars, other>>

\* the stage registered for route.querySchema: lines 664-674
validateQuery ==
    /\ Dispatching("querySchema")
    /\ \E result \in ValidateResults :
         /\ log' = [Started(Head(rest)) EXCEPT
                       !.called = @ \cup {"querySchema"},
                       !.passed = IF result.ok THEN @ \cup {"querySchema"} ELSE @,
                    !.ajv = result.ajv]
         /\ IF result.ok
            THEN /\ rest' = Tail(rest)
                 /\ UNCHANGED <<mode, thrown>>
            ELSE /\ thrown' = result.error
                 /\ mode' = "throw"
                 /\ UNCHANGED rest
    /\ UNCHANGED <<request, declared, frames, ctx, nodeEnv, act, emitted, delivered>>
    /\ UNCHANGED <<composeVars, other>>

\* the error leaves the action wrapper through its catch block, which reads
\* NODE_ENV only for an error that is no BaseError: lines 703-719
Rethrow(error) ==
    /\ mode' = "throw"
    /\ IF error.class = "BaseError"
       THEN /\ thrown' = normalizeError(error, nodeEnv)
            /\ UNCHANGED nodeEnv
       ELSE \E env \in NodeEnvs :
              /\ nodeEnv' = env
              /\ thrown' = normalizeError(error, env)

\* an action wrapper that calls next once the action has returned
actionWrapper_CallsNext ==
    /\ Dispatching("action")
    /\ rest' = Tail(rest)
    /\ \E b \in Behaviours :
         LET stage == Head(rest)
             used == usePagination(ctx, b.pagination)
             c == IF used.thrown # NoError THEN ctx ELSE afterAction(used.ctx, b)
             r == interpretResponse(c, b.value, stage.path, stage.returning)
         IN  /\ act' = [kind |-> IF used.thrown # NoError THEN "throw" ELSE b.kind,
                        behaviour |-> b, ctx |-> c]
             /\ log' = [Started(stage) EXCEPT !.addMeta = @ \o b.meta]
             /\ IF used.thrown # NoError
                THEN /\ ctx' = c
                     /\ Rethrow(used.thrown)
                ELSE IF b.kind = "throw"
                THEN /\ ctx' = c
                     /\ Rethrow(b.error)
                ELSE IF r.thrown # NoError
                THEN /\ ctx' = r.ctx
                     /\ Rethrow(r.thrown)
                ELSE /\ ctx' = r.ctx
                     /\ mode' = "next"
                     /\ UNCHANGED <<thrown, nodeEnv>>
    /\ UNCHANGED <<request, declared, frames, emitted, delivered>>
    /\ UNCHANGED <<composeVars, other>>

\* the action wrapper: lines 679-720
actionWrapper ==
    /\ Dispatching("action")
    /\ rest' = Tail(rest)
    /\ \E b \in Behaviours :
         LET stage == Head(rest)
             used == usePagination(ctx, b.pagination)
             c == IF used.thrown # NoError THEN ctx ELSE afterAction(used.ctx, b)
             r == interpretResponse(c, b.value, stage.path, stage.returning)
         IN  /\ act' = [kind |-> IF used.thrown # NoError THEN "throw" ELSE b.kind,
                        behaviour |-> b, ctx |-> c]
             /\ log' = [Started(stage) EXCEPT !.addMeta = @ \o b.meta]
             /\ IF used.thrown # NoError
                THEN /\ ctx' = c
                     /\ Rethrow(used.thrown)
                ELSE IF b.kind = "throw"
                THEN /\ ctx' = c
                     /\ Rethrow(b.error)
                ELSE IF r.thrown # NoError
                THEN /\ ctx' = r.ctx
                     /\ Rethrow(r.thrown)
                ELSE /\ ctx' = r.ctx
                     /\ mode' = "return"
                     /\ UNCHANGED <<thrown, nodeEnv>>
    /\ UNCHANGED <<request, declared, frames, emitted, delivered>>
    /\ UNCHANGED <<composeVars, other>>

\* the body as serialised when the response is sent: a field that refers
\* to ctx.state.meta shows what that object holds by then
serialised(c) ==
    IF "meta" \in DOMAIN c.body /\ c.body.meta = MetaRef
    THEN [c.body EXCEPT !.meta = [t |-> "object", props |-> c.state.meta.props]]
    ELSE c.body

\* koa's respond: a status of EmptyStatus is sent without a body, and a
\* missing body is replaced by the text of the status
sentBody(c) ==
    IF c.status \in EmptyStatus THEN Val("empty")
    ELSE IF c.body \in {Undefined, Null} THEN Val("statusText")
    ELSE serialised(c)

\* the chain has settled without an error: koa sends the response
respond ==
    /\ phase \in RequestPhases
    /\ mode = "return"
    /\ frames = <<>>
    /\ delivered' = [status |-> ctx.status, body |-> sentBody(ctx)]
    /\ mode' = "responded"
    /\ UNCHANGED <<request, declared, rest, frames, ctx, thrown, nodeEnv, log, act, emitted>>
    /\ UNCHANGED <<composeVars, other>>

\* no propagateErrors encloses the failing stage: the error reaches the
\* host framework's default handler
uncaught ==
    /\ phase \in RequestPhases
    /\ mode = "throw"
    /\ frames = <<>>
    /\ mode' = "uncaught"
    /\ UNCHANGED <<request, declared, rest, frames, ctx, thrown, nodeEnv, log, act, emitted,
                   delivered>>
    /\ UNCHANGED <<composeVars, other>>

\* a stage of one request is suspended in an await and the event loop
\* runs the continuation of the other request, which closes over its own
\* context; process.env and the app's listeners are the process's
interleave ==
    /\ phase = "concurrent"
    /\ other' = Suspended(request, declared, rest, frames, mode, ctx, thrown, log, act,
                         delivered)
    /\ request' = other.request
    /\ declared' = other.declared
    /\ rest' = other.rest
    /\ frames' = other.frames
    /\ mode' = other.mode
    /\ ctx' = other.ctx
    /\ thrown' = other.thrown
    /\ log' = other.log
    /\ act' = other.act
    /\ delivered' = other.delivered
    /\ UNCHANGED <<nodeEnv, emitted>>
    /\ UNCHANGED composeVars

----------------------------------------------------------------------------
(* Specifications. *)

InitCompose ==
    /\ phase = "idle"
    /\ sync = TRUE
    /\ factories \in [Factories -> [prefix : UNION {PrefixSet(f) : f \in Factories},
                                    hasMiddleware : BOOLEAN]]
    /\ \A f \in Factories :
         /\ factories[f].prefix \in PrefixSet(f)
         /\ factories[f].hasMiddleware \in HasMiddlewareSet(f)
    /\ pc = [f \in Factories |-> "idle"]
    /\ deps = [f \in Factories |-> 0]
    /\ created = [f \in Factories |-> <<>>]
    /\ routerMw = [f \in Factories |-> NoRouterMiddleware]
    /\ made = [f \in Factories |-> <<>>]
    /\ allRoutes = <<>>
    /\ router = <<>>
    /\ calls = <<>>
    /\ rejected = [f \in 0 .. Len(ParentTable) |-> NoRejection]
    /\ arrays = [f \in Factories |-> <<>>]
    /\ request = [method |-> "none"]
    /\ declared = [schema |-> FALSE, querySchema |-> FALSE, returning |-> FALSE]
    /\ rest = <<>>
    /\ frames = <<>>
    /\ mode = "none"
    /\ ctx = NewContext
    /\ thrown = NoError
    /\ nodeEnv = "unread"
    /\ log = NewLog
    /\ act = NoAction
    /\ emitted = <<>>
    /\ delivered = [status |-> 0]
    /\ other = NoRequest

NextCompose ==
    \/ createRouterFactories
    \/ \E f \in Factories : getDependencies(f)
    \/ \E f \in Factories : create(f)
    \/ \E f \in Factories : middleware(f)
    \/ \E f \in Factories : nested(f)
    \/ \E f \in Factories : nestedRoutes(f)
    \/ createAllRoutes
    \/ createRouterRaw

SpecCompose == InitCompose /\ [][NextCompose]_vars

\* a pass whose callbacks are asynchronous: the awaits resume in any order
\* and any of them may throw
InitAsync ==
    /\ phase = "idle"
    /\ sync = FALSE
    /\ factories \in [Factories -> [prefix : UNION {PrefixSet(f) : f \in Factories},
                                    hasMiddleware : BOOLEAN]]
    /\ \A f \in Factories :
         /\ factories[f].prefix = Prefix(<<Sep, PrefixName[f]>>)
         /\ factories[f].hasMiddleware \in HasMiddlewareSet(f)
    /\ pc = [f \in Factories |-> "idle"]
    /\ deps = [f \in Factories |-> 0]
    /\ created = [f \in Factories |-> <<>>]
    /\ routerMw = [f \in Factories |-> NoRouterMiddleware]
    /\ made = [f \in Factories |-> <<>>]
    /\ allRoutes = <<>>
    /\ router = <<>>
    /\ calls = <<>>
    /\ rejected = [f \in 0 .. Len(ParentTable) |-> NoRejection]
    /\ arrays = [f \in Factories |-> <<>>]
    /\ request = [method |-> "none"]
    /\ declared = [schema |-> FALSE, querySchema |-> FALSE, returning |-> FALSE]
    /\ rest = <<>>
    /\ frames = <<>>
    /\ mode = "none"
    /\ ctx = NewContext
    /\ thrown = NoError
    /\ nodeEnv = "unread"
    /\ log = NewLog
    /\ act = NoAction
    /\ emitted = <<>>
    /\ delivered = [status |-> 0]
    /\ other = NoRequest

NextAsync ==
    \/ createRouterFactories
    \/ \E f \in Factories : getDependencies(f)
    \/ \E f \in Factories : create(f)
    \/ \E f \in Factories : middleware(f)
    \/ \E f \in Factories : nested(f)
    \/ \E f \in Factories : nestedRoutes(f)
    \/ \E f \in Factories : createRoutesThrow(f)
    \/ createAllRoutes
    \/ createRouterRaw

SpecAsync == InitAsync /\ [][NextAsync]_vars

----------------------------------------------------------------------------
(* Claims about the composition pass (SpecCompose). *)

Composed == phase \in {"resolved", "mounted"}

PrefixStr(f) == IF factories[f].prefix.has THEN factories[f].prefix.str ELSE EmptyStr

\* the routes of the table that stem from the k-th declaration of factory f
RoutesOf(f, k) == SelectSeq(allRoutes, LAMBDA route : route.action = <<f, k>>)

\* the prefixes of a chain of factories applied to p one level at a time,
\* leaf first: join(P1, join(P2, ... join(Pk, p)))
RECURSIVE Prefixed(_, _)
Prefixed(chain, p) ==
    IF chain = <<>> THEN p ELSE join(PrefixStr(Head(chain)), Prefixed(Tail(chain), p))

\* the prefixes of a chain of factories and p in one join: join(P1, ..., Pk, p)
JoinedOnce(chain, p) == joinAll([i \in 1 .. Len(chain) |-> PrefixStr(chain[i])] \o <<p>>)

\* the paths the table holds for a declaration are `expected`, one route each
PathsAre(f, k, expected(_, _)) ==
    LET d == created[f][k]
        rs == RoutesOf(f, k)
    IN  /\ Len(rs) = Len(d.path.strs)
        /\ \A j \in 1 .. Len(rs) : rs[j].path.strs[1] = expected(ChainOf(f), d.path.strs[j])

\* C1 (as amended): for every declaration of every factory of the forest the
\* route table holds exactly one route per path p of the declaration, at
\* join(P1, join(P2, ... join(Pk, p))), P1..Pk being the prefixes of the
\* factories from the top-level one down to the declaring one (a missing
\* prefix counting as ''); it holds no route of the declaration at any other
\* path, so none that lacks an ancestor's prefix or carries a sibling's.
C1_PrefixPerLevel ==
    Composed => \A f \in Factories : \A k \in 1 .. Len(created[f]) : PathsAre(f, k, Prefixed)

\* C1 as stated: the route's path is join(P1, ..., Pk, p).
C1_JoinedOnce ==
    Composed => \A f \in Factories : \A k \in 1 .. Len(created[f]) : PathsAre(f, k, JoinedOnce)

\* a route three factories deep carries the three prefixes root to leaf,
\* beside the route of a sibling factory
C1_Witness ==
    /\ Composed
    /\ \E i \in 1 .. Len(allRoutes) :
         /\ allRoutes[i].action = <<3, 1>>
         /\ allRoutes[i].path.strs[1] = <<Sep, "p1", Sep, "p2", Sep, "p3", Sep, "r">>
    /\ \E i \in 1 .. Len(allRoutes) :
         /\ allRoutes[i].action = <<4, 1>>
         /\ allRoutes[i].path.strs[1] = <<Sep, "p1", Sep, "p4", Sep, "nested">>

\* the middleware lists the factories of a chain returned, outermost first
RECURSIVE Inherited(_)
Inherited(chain) ==
    IF chain = <<>> THEN <<>>
    ELSE (IF routerMw[Head(chain)].has THEN routerMw[Head(chain)].list ELSE <<>>)
         \o Inherited(Tail(chain))

\* C3: every route of the table has as routerMiddleware the middleware lists
\* of the factories from the top-level one down to the declaring one, in that
\* order, and nothing else; its own middleware is the declaration's list (the
\* list a thunk returns, the empty list when none is declared).
C3_RouterMiddlewareInherited ==
    Composed =>
        \A f \in Factories : \A k \in 1 .. Len(created[f]) :
            \A j \in 1 .. Len(RoutesOf(f, k)) :
                LET route == RoutesOf(f, k)[j]
                IN  /\ route.routerMiddleware.has
                    /\ route.routerMiddleware.list = Inherited(ChainOf(f))
                    /\ route.middleware = MiddlewareArray(created[f][k].middleware.list)

\* a route three factories deep inherits from all three, and the declaration
\* gave its own middleware as a thunk
C3_Witness ==
    /\ Composed
    /\ \E i \in 1 .. Len(allRoutes) :
         /\ allRoutes[i].action = <<3, 1>>
         /\ allRoutes[i].routerMiddleware.list = <<Mw(1, 1), Mw(2, 1), Mw(2, 2), Mw(3, 1)>>
         /\ created[3][1].middleware = MiddlewareThunk(<<Mw(0, 1)>>)
         /\ allRoutes[i].middleware = MiddlewareArray(<<Mw(0, 1)>>)

\* the action layers the router holds for a declaration, in order
BindingsOf(f, k) ==
    SelectSeq(router, LAMBDA layer :
        /\ Len(layer.stack) = 1
        /\ layer.stack[1].kind = "action"
        /\ layer.stack[1].action = <<f, k>>)

\* C4: a declaration with N paths and M methods yields N routes, one per
\* path, each prefixed alike and each with the declaration's M methods,
\* action, schema, querySchema, returning and middleware; mounted, it yields
\* N x M bindings, one per (path, method) pair.
C4_ArrayExpansion ==
    \A f \in Factories : \A k \in 1 .. Len(created[f]) :
        LET d == created[f][k]
            N == Len(d.path.strs)
            M == Len(d.method.ms)
            rs == RoutesOf(f, k)
            bs == BindingsOf(f, k)
        IN  /\ Composed =>
                /\ Len(rs) = N
                /\ \A j \in 1 .. Len(rs) :
                     /\ rs[j].path = OnePath(Prefixed(ChainOf(f), d.path.strs[j]))
                     /\ rs[j].method = d.method
                     /\ rs[j].action = d.action
                     /\ rs[j].schema = d.schema
                     /\ rs[j].querySchema = d.querySchema
                     /\ rs[j].returning = d.returning
                     /\ rs[j].middleware.list = d.middleware.list
            /\ phase = "mounted" =>
                /\ Len(bs) = N * M
                /\ \A j \in 1 .. N : \A m \in 1 .. M :
                     LET b == bs[(j - 1) * M + m]
                     IN  /\ b.path = Prefixed(ChainOf(f), d.path.strs[j])
                         /\ b.method = d.method.ms[m]
                         /\ b.stack[1].returning = d.returning

\* a declaration with 2 paths and 2 methods is mounted as 4 bindings
C4_Witness ==
    /\ phase = "mounted"
    /\ Len(created[3]) = 1
    /\ Len(created[3][1].path.strs) = 2
    /\ Len(created[3][1].method.ms) = 2
    /\ Len(RoutesOf(3, 1)) = 2
    /\ Len(BindingsOf(3, 1)) = 4

\* a request for one of the methods of a mounted route; the parsed body,
\* which only the schema stage reads, is undefined or an object
Init ==
    /\ phase = "request"
    /\ sync = TRUE
    /\ factories = <<>>
    /\ pc = <<>>
    /\ deps = <<>>
    /\ created = <<>>
    /\ routerMw = <<>>
    /\ made = <<>>
    /\ allRoutes = <<>>
    /\ router = <<>>
    /\ calls = <<>>
    /\ rejected = [f \in 0 .. Len(ParentTable) |-> NoRejection]
    /\ arrays = [f \in Factories |-> <<>>]
    /\ \E route \in MountedRoutes :
         /\ request \in [ method : {"get", "post"},
                          path : {route.path.strs[1]},
                          body : IF route.schema = "undefined"
                                 THEN {Undefined} ELSE {Undefined, Obj("body")} ]
         /\ declared = [ schema |-> route.schema # "undefined",
                         querySchema |-> route.querySchema # "undefined",
                         returning |-> route.returning # "undefined" ]
         /\ rest = matchedStack(addRouteToRouter(route, <<>>), request.method, request.path)
    /\ frames = <<>>
    /\ mode = "next"
    /\ ctx = NewContext
    /\ thrown = NoError
    /\ nodeEnv = "unread"
    /\ log = NewLog
    /\ act = NoAction
    /\ emitted = <<>>
    /\ delivered = [status |-> 0]
    /\ other = NoRequest

Next ==
    \/ propagateErrors
    \/ propagateErrorsReturn
    \/ propagateErrorsCatch
    \/ userMiddleware
    \/ validateBody
    \/ validateQuery
    \/ actionWrapper
    \/ respond
    \/ uncaught

Spec == Init /\ [][Next]_vars

----------------------------------------------------------------------------
(* Claims about one request.                                               *)

\* the place of a stage in the order of addRouteToRouter's registrations
Rank(stage) ==
    CASE StageClass(stage) = "routerMiddleware" -> 1
      [] StageClass(stage) = "schema" -> 2
      [] StageClass(stage) = "querySchema" -> 3
      [] StageClass(stage) = "middleware" -> 4
      [] StageClass(stage) = "action" -> 5

RankOfClass(class) ==
    CASE class = "routerMiddleware" -> 1
      [] class = "schema" -> 2
      [] class = "querySchema" -> 3
      [] class = "middleware" -> 4
      [] class = "action" -> 5

\* the place of a stage among those of its registration: the depth of the
\* factory it was inherited from, or its index in the route's own list
Place(stage) ==
    CASE stage.kind = "user" -> IF stage.owner = 0 THEN stage.idx ELSE stage.owner
      [] OTHER -> 0

Before(a, b) ==
    \/ Rank(a) < Rank(b)
    \/ Rank(a) = Rank(b) /\ Place(a) <= Place(b)

InRest(kind) == \E i \in 1 .. Len(rest) : rest[i].kind = kind

\* the stages still to run are in the order of the registrations, and none
\* of them belongs before a stage that has started
ChainOrder ==
    /\ \A i, j \in 1 .. Len(rest) : i < j => Before(rest[i], rest[j])
    /\ \A i \in 1 .. Len(rest) : \A class \in log.started : RankOfClass(class) <= Rank(rest[i])
    /\ InRest("action") \/ "action" \in log.started

\* a validation stage is in the chain exactly when the route declares it
ValidationDeclared ==
    /\ declared.schema <=> (InRest("schema") \/ "schema" \in log.started)
    /\ declared.querySchema <=> (InRest("querySchema") \/ "querySchema" \in log.started)

\* a stage starts only while every stage before it has called next
StartsAfterNext ==
    (log'.started # log.started \/ rest' # rest) =>
        /\ mode = "next"
        /\ rest' = Tail(rest)
           \/ (rest' = rest /\ mode' # "next")

\* C2: for a request to a mounted route the stages run in the order
\* routerMiddleware (outermost factory first), body validation, query
\* validation, the route's own middleware in declared order, the action
\* wrapper; a stage starts only after the stage before it has called next;
\* the body (query) validation stage is in the chain if and only if the
\* route declares schema (querySchema).
C2_ChainOrder == [](ChainOrder /\ ValidationDeclared) /\ [][StartsAfterNext]_vars

\* a route with inherited and own middleware and both schemas has reached
\* its action
C2_Witness ==
    /\ phase = "request"
    /\ declared.schema /\ declared.querySchema
    /\ log.started = {"routerMiddleware", "schema", "querySchema", "middleware", "action"}

Returned(value) ==
    /\ phase = "request"
    /\ act.kind = "return"
    /\ act.behaviour.value = value

EmptyResponse == [status |-> 204, body |-> Val("empty")]

MissedReturn ==
    /\ Returned(Undefined)
    /\ act.ctx.body = Undefined
    /\ act.ctx.status # 204

Enveloped == phase = "request" /\ emitted # <<>>

\* the message the caller is sent for the error `thrown`
DeliveredMessage == ctx.body.message

\* C6 (as amended): when the action returns undefined, ctx.body is
\* undefined and the status is not 204, the wrapper throws an error of
\* status 500 whose internalMessage names the route's path; the message
\* delivered by propagateErrors names the path only when NODE_ENV is not
\* 'production' and includeInternalErrors is true, and is
\* 'Internal server error (see logs)' otherwise.
C6_MissingReturn ==
    MissedReturn =>
        /\ mode \in {"throw", "uncaught"} \/ Enveloped
        /\ thrown.status = Some(500)
        /\ thrown.internalMessage = MissingReturn(request.path)
        /\ Enveloped =>
             /\ ctx.status = 500
             /\ DeliveredMessage =
                    IF nodeEnv # "production" /\ log.caught[1]
                    THEN MissingReturn(request.path)
                    ELSE InternalServerError

C6_Witness ==
    /\ MissedReturn
    /\ Enveloped
    /\ nodeEnv = "production"
    /\ log.caught[1]
    /\ DeliveredMessage = InternalServerError

\* C6 (as claimed): the delivered message names the route's path for every
\* NODE_ENV and every includeInternalErrors flag.
C6_AlwaysNamesRoute ==
    (MissedReturn /\ Enveloped) =>
        /\ ctx.status = 500
        /\ DeliveredMessage = MissingReturn(request.path)

\* the action assigned a truthy ctx.body and returned undefined
BodySetDirectly ==
    /\ Returned(Undefined)
    /\ act.behaviour.setBody # None
    /\ Truthy(act.ctx.body)

\* C7 (as amended): when the action assigns a truthy ctx.body, returns
\* undefined and ctx.status is not 204, the wrapper raises no error and
\* leaves ctx.body and ctx.status as the action left them.
C7_BodySetDirectly ==
    (BodySetDirectly /\ act.ctx.status # 204) =>
        /\ thrown = NoError
        /\ ctx.body = act.ctx.body
        /\ ctx.status = act.ctx.status

C7_Witness ==
    /\ BodySetDirectly
    /\ act.ctx.status = 200
    /\ mode = "responded"
    /\ delivered = [status |-> 200, body |-> Obj("assigned")]

\* C7 (as claimed): whenever the action assigns a truthy ctx.body and
\* returns undefined the body stays as assigned and no error is raised.
C7_AlwaysKept ==
    BodySetDirectly =>
        /\ thrown = NoError
        /\ ctx.body = act.ctx.body

\* a validator was called and returned something other than true
ValidationFailed ==
    /\ phase = "request"
    /\ log.called \ log.passed # {}

NotInvoked ==
    /\ "middleware" \notin log.started
    /\ "action" \notin log.started
    /\ act = NoAction

\* error.status || error.statusCode || 500
StatusOf(error) == OrNum(error.status, OrNum(error.statusCode, Some(500)))[1]

\* C8 (as amended): when a validator returns something other than true,
\* the value it returned is thrown: neither the route's own middleware nor
\* its action is invoked and the response has the status of that error,
\* which is 400 for the BaseError of JSONSchema and YupSchema and 500 for an
\* Error without a status; the action is invoked only after every declared
\* schema has returned true.
C8_ValidationGate ==
    /\ ValidationFailed =>
         /\ NotInvoked
         /\ mode # "next"
         /\ thrown.class \in {"BaseError", "Error"}
         /\ Enveloped => ctx.status = StatusOf(thrown)
         /\ (Enveloped /\ thrown.class = "BaseError") => ctx.status = 400
    /\ (phase = "request" /\ "action" \in log.started) =>
         /\ declared.schema => "schema" \in log.passed
         /\ declared.querySchema => "querySchema" \in log.passed

C8_Witness ==
    /\ ValidationFailed
    /\ declared.schema /\ declared.querySchema
    /\ log.passed = {"schema"}
    /\ thrown.class = "BaseError"
    /\ Enveloped
    /\ ctx.status = 400

\* C8 (as claimed): for any Schema implementation a result other than true
\* fails the request with HTTP 400.
C8_Always400 ==
    (ValidationFailed /\ Enveloped) => (ctx.status = 400 /\ NotInvoked)

\* the schema stage has started for a request without a parsed body
BodyMissing ==
    /\ phase = "request"
    /\ declared.schema
    /\ request.body = Undefined
    /\ "schema" \in log.started

\* C9: on a route that declares schema, a request whose parsed body is
\* undefined fails with status 400 and message 'a request body is required'
\* before schema.validate is called, and the action is not invoked.
C9_RequiredBody ==
    BodyMissing =>
        /\ thrown = BaseError(BodyRequired, 400, 400)
        /\ "schema" \notin log.called
        /\ NotInvoked
        /\ mode # "next"
        /\ Enveloped =>
             /\ ctx.status = 400
             /\ DeliveredMessage = BodyRequired

C9_Witness ==
    /\ BodyMissing
    /\ Enveloped
    /\ mode = "responded"
    /\ delivered.status = 400
    /\ delivered.body.message = BodyRequired

\* the action threw a BaseError and propagateErrors(true) caught it
TrustedCaught ==
    /\ phase = "request"
    /\ act.kind = "throw"
    /\ act.behaviour.error.class = "BaseError"
    /\ Enveloped
    /\ log.caught[1]

\* the envelope the claim describes for err(status, message, code) with
\* the data attached to it
ClaimedEnvelope(error) ==
    [ t       |-> "object",
      success |-> FALSE,
      code    |-> error.code[1],
      message |-> error.message,
      data    |-> IF error.data = Undefined THEN Null ELSE error.data ]

\* C10: when an action throws err(status, message, code), optionally with
\* withData(data), under propagateErrors(true), the response has HTTP
\* status = status and body exactly {success: false, code: code (-1 when
\* none was given), message: message, data: the attached data (null when
\* none was attached)}.
C10_TrustedEnvelope ==
    TrustedCaught =>
        /\ ctx.status = act.behaviour.error.statusCode[1]
        /\ ctx.body = ClaimedEnvelope(act.behaviour.error)

\* the same for errors whose code and data are not falsy values
C10_TruthyFields ==
    (/\ TrustedCaught
     /\ act.behaviour.error.code # Some(0)
     /\ act.behaviour.error.data \in {Undefined, Obj("data")}) =>
        /\ ctx.status = act.behaviour.error.statusCode[1]
        /\ ctx.body = ClaimedEnvelope(act.behaviour.error)

\* the request went through at least two propagateErrors instances
Nested == phase = "request" /\ Len(log.entered) >= 2

IsEnvelope(body) == "success" \in DOMAIN body

\* C11: when a request passes through two or more nested propagateErrors
\* instances, at most one of them, the outermost, is ever waiting to catch;
\* an error thrown below them is caught once, by the outermost, which sets
\* status and body to the envelope of that error and emits 'servall-err'
\* once; the inner instances only call next, so the envelope's data is never
\* itself an envelope.
C11_SingleEnvelope ==
    Nested =>
        /\ Len(frames) <= 1
        /\ frames # <<>> => frames[1] = PropagateErrors(log.entered[1])
        /\ Len(log.caught) <= 1
        /\ Len(emitted) <= 1
        /\ log.caught # <<>> <=> emitted # <<>>
        /\ Enveloped =>
             /\ log.caught[1] = log.entered[1]
             /\ ctx.status = StatusOf(thrown)
             /\ ctx.body = errorEnvelope(thrown, ctx.status, log.entered[1])
             /\ emitted[1] = [error |-> thrown, response |-> ctx.body]
             /\ ~IsEnvelope(ctx.body.data)

\* an action's error below propagateErrors(true) around propagateErrors(false)
\* was answered with the outer instance's envelope
C11_Witness ==
    /\ Nested
    /\ log.entered = <<TRUE, FALSE>>
    /\ act.kind = "throw"
    /\ log.caught = <<TRUE>>
    /\ Len(emitted) = 1
    /\ mode = "responded"
    /\ delivered.body = ctx.body
    /\ IsEnvelope(delivered.body)

----------------------------------------------------------------------------
(* One request below propagateValues (SpecValues).                         *)

\* the envelope middleware around a route: up to MaxWrap of
\* propagateErrors(true) and propagateValues(), in any order
EnvelopeLists ==
    UNION { [1 .. k -> {PropagateErrors(TRUE), PropagateValues}] : k \in 0 .. MaxWrap }

\* a route returned by a factory whose middleware() lists `envelopes`, with
\* a middleware calling addMeta outside of them, inside of them, or nowhere
EnvelopedRoute(envelopes, place) ==
    [ Route(0, 1, OnePath(<<Sep, "test">>), OneMethod("get"), NoMiddleware,
            "undefined", "undefined", "undefined")
      EXCEPT !.routerMiddleware =
          [ has  |-> TRUE,
            list |-> (IF place = "outside" THEN <<AddMetaMiddleware>> ELSE <<>>)
                     \o envelopes
                     \o (IF place = "inside" THEN <<AddMetaMiddleware>> ELSE <<>>) ] ]

InitValues ==
    /\ phase = "values"
    /\ sync = TRUE
    /\ factories = <<>>
    /\ pc = <<>>
    /\ deps = <<>>
    /\ created = <<>>
    /\ routerMw = <<>>
    /\ made = <<>>
    /\ allRoutes = <<>>
    /\ router = <<>>
    /\ calls = <<>>
    /\ rejected = [f \in 0 .. Len(ParentTable) |-> NoRejection]
    /\ arrays = [f \in Factories |-> <<>>]
    /\ request = [method |-> "get", path |-> <<Sep, "test">>, body |-> Undefined]
    /\ declared = [schema |-> FALSE, querySchema |-> FALSE, returning |-> FALSE]
    /\ \E envelopes \in EnvelopeLists, place \in {"outside", "inside", "nowhere"} :
         rest = matchedStack(addRouteToRouter(EnvelopedRoute(envelopes, place), <<>>),
                             request.method, request.path)
    /\ frames = <<>>
    /\ mode = "next"
    /\ ctx = NewContext
    /\ thrown = NoError
    /\ nodeEnv = "unread"
    /\ log = NewLog
    /\ act = NoAction
    /\ emitted = <<>>
    /\ delivered = [status |-> 0]
    /\ other = NoRequest

NextValues ==
    \/ propagateErrors
    \/ propagateErrorsReturn
    \/ propagateErrorsCatch
    \/ propagateValues
    \/ propagateValuesReturn
    \/ propagateValuesThrow
    \/ addMetaMiddleware
    \/ addMetaMiddlewareReturn
    \/ addMetaMiddlewareThrow
    \/ actionWrapper
    \/ respond
    \/ uncaught

SpecValues == InitValues /\ [][NextValues]_vars

----------------------------------------------------------------------------
(* One request through paginate (pagination.ts).                           *)

\* paginate(defaultCount, maxLimit), a middleware function
Paginate(defaultCount, maxLimit) ==
    [kind |-> "paginate", defaultCount |-> defaultCount, maxLimit |-> maxLimit]

\* the maxLimit of the routes, and the defaultCounts: one below it, one above
MaxLimit == 3
DefaultCounts == {MaxLimit - 1, MaxLimit + 1}

\* what a query parameter may be: absent, empty, not a number, one digit,
\* or two digits
QueryValues ==
    { Absent, Given(<<>>), Given(<<"x">>), Given(<<"0", "2">>), Given(<<"1", "0">>) }
    \cup { Given(<<Digits[n + 1]>>) : n \in 0 .. MaxNumber }

\* the test's route: propagateErrors and propagateValues from the factory,
\* or neither, and paginate as the route's own middleware, or not
PaginatedRoute(envelopes, own) ==
    [ Route(0, 1, OnePath(<<Sep>>), OneMethod("get"), MiddlewareArray(own),
            "undefined", "undefined", "undefined")
      EXCEPT !.routerMiddleware = [has |-> TRUE, list |-> envelopes] ]

PaginatedRoutes ==
    { PaginatedRoute(envelopes, own) :
        envelopes \in { <<>>, <<PropagateErrors(TRUE), PropagateValues>>,
                        <<PropagateErrors(FALSE), PropagateValues>> },
        own \in { <<>> } \cup { <<Paginate(d, MaxLimit)>> : d \in DefaultCounts } }

InitPaginate ==
    /\ phase = "paginate"
    /\ sync = TRUE
    /\ factories = <<>>
    /\ pc = <<>>
    /\ deps = <<>>
    /\ created = <<>>
    /\ routerMw = <<>>
    /\ made = <<>>
    /\ allRoutes = <<>>
    /\ router = <<>>
    /\ calls = <<>>
    /\ rejected = [f \in 0 .. Len(ParentTable) |-> NoRejection]
    /\ arrays = [f \in Factories |-> <<>>]
    /\ request \in [ method : {"get"}, path : {<<Sep>>}, body : {Undefined},
                     query : [page : QueryValues, count : QueryValues] ]
    /\ \E route \in PaginatedRoutes :
         /\ declared = [schema |-> FALSE, querySchema |-> FALSE, returning |-> FALSE,
                        middleware |-> route.middleware.list]
         /\ rest = matchedStack(addRouteToRouter(route, <<>>), request.method, request.path)
    /\ frames = <<>>
    /\ mode = "next"
    /\ ctx = NewContext
    /\ thrown = NoError
    /\ nodeEnv = "unread"
    /\ log = NewLog
    /\ act = NoAction
    /\ emitted = <<>>
    /\ delivered = [status |-> 0]
    /\ other = NoRequest

NextPaginate ==
    \/ propagateErrors
    \/ propagateErrorsReturn
    \/ propagateErrorsCatch
    \/ propagateValues
    \/ propagateValuesReturn
    \/ propagateValuesThrow
    \/ paginate
    \/ paginateReturn
    \/ paginateThrow
    \/ actionWrapper
    \/ respond
    \/ uncaught

SpecPaginate == InitPaginate /\ [][NextPaginate]_vars

----------------------------------------------------------------------------
(* Two requests through the same router (SpecConcurrent).                  *)

\* the routes of the router: a factory's middleware() lists propagateErrors
\* once, twice or not at all, then propagateValues
ConcurrentRoutes ==
    { EnvelopedRoute(envelopes \o <<PropagateValues>>, "nowhere") :
        envelopes \in { <<>>, <<PropagateErrors(TRUE)>>,
                        <<PropagateErrors(TRUE), PropagateErrors(FALSE)>> } }

\* a request that has arrived and whose chain has not started
Arrived(route) ==
    Suspended([method |-> "get", path |-> <<Sep, "test">>, body |-> Undefined],
              [schema |-> FALSE, querySchema |-> FALSE, returning |-> FALSE],
              matchedStack(addRouteToRouter(route, <<>>), "get", <<Sep, "test">>),
              <<>>, "next", NewContext, NoError, NewLog, NoAction, [status |-> 0])

InitConcurrent ==
    /\ phase = "concurrent"
    /\ sync = TRUE
    /\ factories = <<>>
    /\ pc = <<>>
    /\ deps = <<>>
    /\ created = <<>>
    /\ routerMw = <<>>
    /\ made = <<>>
    /\ allRoutes = <<>>
    /\ router = <<>>
    /\ calls = <<>>
    /\ rejected = [f \in 0 .. Len(ParentTable) |-> NoRejection]
    /\ arrays = [f \in Factories |-> <<>>]
    /\ \E first \in ConcurrentRoutes, second \in ConcurrentRoutes :
         /\ request = Arrived(first).request
         /\ declared = Arrived(first).declared
         /\ rest = Arrived(first).rest
         /\ other = Arrived(second)
    /\ frames = <<>>
    /\ mode = "next"
    /\ ctx = NewContext
    /\ thrown = NoError
    /\ nodeEnv = "unread"
    /\ log = NewLog
    /\ act = NoAction
    /\ emitted = <<>>
    /\ delivered = [status |-> 0]

NextConcurrent ==
    \/ propagateErrors
    \/ propagateErrorsReturn
    \/ propagateErrorsCatch
    \/ propagateValues
    \/ propagateValuesReturn
    \/ propagateValuesThrow
    \/ actionWrapper
    \/ respond
    \/ uncaught
    \/ interleave

SpecConcurrent == InitConcurrent /\ [][NextConcurrent]_vars

----------------------------------------------------------------------------
(* One request below nested propagateErrors instances (SpecNested).        *)

\* the instances an application or a factory may list: either flag, with
\* one of two transform functions or none
Instances ==
    { PropagateErrorsWith(flag, transform) :
        flag \in BOOLEAN, transform \in {"undefined", "a", "b"} }

\* a route below propagateErrors at the top of the app and again in its
\* factory's middleware(), a middleware of the factory between them or not
NestedRoutes ==
    { EnvelopedRoute(<<outer>> \o between \o <<inner>>, "nowhere") :
        outer \in Instances, inner \in Instances, between \in { <<>>, <<Mw(1, 1)>> } }

InitNested ==
    /\ phase = "nested"
    /\ sync = TRUE
    /\ factories = <<>>
    /\ pc = <<>>
    /\ deps = <<>>
    /\ created = <<>>
    /\ routerMw = <<>>
    /\ made = <<>>
    /\ allRoutes = <<>>
    /\ router = <<>>
    /\ calls = <<>>
    /\ rejected = [f \in 0 .. Len(ParentTable) |-> NoRejection]
    /\ arrays = [f \in Factories |-> <<>>]
    /\ request = [method |-> "get", path |-> <<Sep, "test">>, body |-> Undefined]
    /\ \E route \in NestedRoutes :
         /\ declared = [schema |-> FALSE, querySchema |-> FALSE, returning |-> FALSE,
                        routerMiddleware |-> route.routerMiddleware.list]
         /\ rest = matchedStack(addRouteToRouter(route, <<>>), request.method, request.path)
    /\ frames = <<>>
    /\ mode = "next"
    /\ ctx = NewContext
    /\ thrown = NoError
    /\ nodeEnv = "unread"
    /\ log = NewLog
    /\ act = NoAction
    /\ emitted = <<>>
    /\ delivered = [status |-> 0]
    /\ other = NoRequest

NextNested ==
    \/ propagateErrors
    \/ propagateErrorsReturn
    \/ propagateErrorsCatch
    \/ userMiddleware
    \/ actionWrapper
    \/ respond

SpecNested == InitNested /\ [][NextNested]_vars

----------------------------------------------------------------------------
(* Claims about propagateValues and addMeta (SpecValues).                  *)

\* a propagateValues instance finishes in this step
ValuesStep == Len(log'.wrapped) = Len(log.wrapped) + 1

\* {success: true, data: body, meta: meta}
SuccessEnvelope(body, meta) ==
    [t |-> "object", success |-> TRUE, data |-> body, meta |-> meta]

\* the meta field of an envelope built while ctx.state.meta was `bag`
MetaField(bag) == IF bag.has THEN MetaRef ELSE Undefined

\* C12: propagateValues leaves a body that has a 'success' key unchanged,
\* and a second (third ...) propagateValues instance on the same request
\* leaves the body as the first one left it, which for a body the first one
\* wrapped is {success: true, data: <original body>, meta: ctx.state.meta}.
C12_Idempotent ==
    [][ValuesStep =>
          /\ HasSuccess(ctx.body) => ctx'.body = ctx.body
          /\ log.wrapped # <<>> =>
               /\ ctx'.body = ctx.body
               /\ ctx'.status = ctx.status
               /\ ctx.body # log.wrapped[1].body =>
                    ctx.body = SuccessEnvelope(log.wrapped[1].body,
                                               MetaField(log.wrapped[1].meta))]_vars

\* two nested instances have run on a returned object: one envelope
C12_Witness ==
    /\ phase = "values"
    /\ Len(log.wrapped) = 2
    /\ log.wrapped[1].body = Obj("returned")
    /\ log.wrapped[2].body = SuccessEnvelope(Obj("returned"), MetaRef)
    /\ ctx.body = log.wrapped[2].body
    /\ mode = "responded"

\* a non-null object (an array included) that is no Buffer, has no read
\* function and no 'success' key
JsonShaped(body) ==
    /\ body.t \in {"object", "array"}
    /\ ~HasSuccess(body)

\* C13: when the chain below it has completed, propagateValues replaces the
\* body by {success: true, data: body, meta} if and only if the body is a
\* non-null object (arrays included) that is not a Buffer, has no read
\* function and has no 'success' key; every other body is left unchanged.
C13_Scope ==
    [][ValuesStep =>
          IF JsonShaped(ctx.body)
          THEN ctx'.body = SuccessEnvelope(ctx.body, MetaField(ctx.state.meta))
          ELSE ctx'.body = ctx.body]_vars

\* an array was wrapped, and the response is its envelope
C13_Witness ==
    /\ phase = "values"
    /\ Len(log.wrapped) = 1
    /\ log.wrapped[1].body = Arr("returned")
    /\ ctx.body = SuccessEnvelope(Arr("returned"), Undefined)
    /\ mode = "responded"
    /\ delivered.body = ctx.body

\* a Buffer went through propagateValues unchanged
C13_PassedThrough ==
    /\ phase = "values"
    /\ Len(log.wrapped) = 1
    /\ log.wrapped[1].body = Buf("returned")
    /\ mode = "responded"
    /\ delivered.body = Buf("returned")

\* the keys passed to addMeta so far
KeysPassed == UNION { DOMAIN log.addMeta[i] : i \in 1 .. Len(log.addMeta) }

\* the last addMeta call that passed `key`
LastCall(key) ==
    CHOOSE i \in 1 .. Len(log.addMeta) :
        /\ key \in DOMAIN log.addMeta[i]
        /\ \A j \in (i + 1) .. Len(log.addMeta) : key \notin DOMAIN log.addMeta[j]

\* ctx.state.meta holds, for every key ever passed, the value of the last
\* call that passed it
Additive ==
    /\ ctx.state.meta.has <=> log.addMeta # <<>>
    /\ ctx.state.meta.has =>
         /\ DOMAIN ctx.state.meta.props = KeysPassed
         /\ \A key \in KeysPassed :
              ctx.state.meta.props[key] = log.addMeta[LastCall(key)][key]

\* the body is an envelope built by propagateValues
Wrapped ==
    /\ phase = "values"
    /\ log.wrapped # <<>>
    /\ JsonShaped(log.wrapped[1].body)

\* what a response shows for ctx.state.meta being `bag`
Shown(bag) == IF bag.has THEN [t |-> "object", props |-> bag.props] ELSE Undefined

\* C14 (as amended): after any sequence of addMeta calls ctx.state.meta
\* holds, for every key ever passed, the value of the last call that passed
\* it, and no call removes a key or replaces the bag; the meta field of the
\* success envelope is the bag object itself as found when the chain below
\* propagateValues has completed (undefined if there was none), so the
\* response shows the bag as it stands when the response is sent, which is
\* the bag as it stood then unless addMeta was called afterwards.
C14_AdditiveMeta ==
    /\ phase = "values" => Additive
    /\ Wrapped =>
         /\ ctx.body = SuccessEnvelope(log.wrapped[1].body, MetaField(log.wrapped[1].meta))
         /\ mode = "responded" =>
              /\ delivered.body.data = log.wrapped[1].body
              /\ delivered.body.meta =
                    IF log.wrapped[1].meta.has THEN Shown(ctx.state.meta) ELSE Undefined
              /\ ctx.state.meta = log.wrapped[1].meta =>
                    delivered.body.meta = Shown(log.wrapped[1].meta)

\* two calls passed `page`, the response shows the value of the second and
\* the key only the first passed
C14_Witness ==
    /\ Wrapped
    /\ log.addMeta = << [page |-> 2, pages |-> 100], [page |-> 1] >>
    /\ log.wrapped[1].meta = Bag([page |-> 1, pages |-> 100])
    /\ mode = "responded"
    /\ delivered.body.meta = Shown(Bag([page |-> 1, pages |-> 100]))

\* C14 (as claimed): the meta field of the success envelope of the
\* response equals the bag as it stood when the chain below propagateValues
\* had completed.
C14_MetaAtCompletion ==
    (Wrapped /\ mode = "responded") =>
        delivered.body.meta = Shown(log.wrapped[1].meta)

----------------------------------------------------------------------------
(* Claims about redaction and projection (Spec).                           *)

\* the action threw a BaseError, and a propagateErrors instance caught it
TrustedEnveloped ==
    /\ phase = "request"
    /\ act.kind = "throw"
    /\ act.behaviour.error.class = "BaseError"
    /\ Enveloped

\* C15: when an action throws a BaseError, the message of the error
\* envelope is the error's own message verbatim, for every status, for
\* both values of includeInternalErrors and for every NODE_ENV.
C15_TrustedVerbatim ==
    TrustedEnveloped => DeliveredMessage = act.behaviour.error.message

\* the same unless the status is 500 or more and includeInternalErrors is
\* false, in which case the message is the fixed one
C15_ExceptInternal ==
    TrustedEnveloped =>
        DeliveredMessage =
            IF ctx.status >= 500 /\ ~log.caught[1]
            THEN InternalServerError
            ELSE act.behaviour.error.message

\* the action threw something that is no BaseError while NODE_ENV is
\* 'production'
UntrustedInProduction ==
    /\ phase = "request"
    /\ act.kind = "throw"
    /\ act.behaviour.error.class # "BaseError"
    /\ nodeEnv = "production"

\* C16: when NODE_ENV is 'production' and an action throws a value that is
\* not a BaseError, the error the action wrapper rethrows has the message
\* 'Internal server error (see logs)' and keeps the original message in
\* internalMessage, and the original message is neither the message nor the
\* data of the body sent to the client.
C16_ProductionRedaction ==
    UntrustedInProduction =>
        /\ thrown.message = InternalServerError
        /\ thrown.internalMessage = act.behaviour.error.message
        /\ Enveloped =>
             /\ DeliveredMessage = InternalServerError
             /\ ctx.body.data # act.behaviour.error.message
        /\ mode = "responded" =>
             /\ Enveloped
             /\ delivered.body = ctx.body

\* a thrown string was answered with the fixed message by propagateErrors(true)
C16_Witness ==
    /\ UntrustedInProduction
    /\ act.behaviour.error = ThrownString("secret")
    /\ thrown.internalMessage = Msg("secret")
    /\ log.caught = <<TRUE>>
    /\ mode = "responded"
    /\ delivered.status = 500
    /\ delivered.body.message = InternalServerError

\* the action returned a truthy value on a route that declares returning
ReturnedForProjection ==
    /\ phase = "request"
    /\ declared.returning
    /\ act.kind = "return"
    /\ Truthy(act.behaviour.value)

\* C20: when a route declares returning and its action returns a truthy
\* value v, the body is extract(v, returning), never v itself, and that is
\* what the response carries.
C20_ReturningProjection ==
    ReturnedForProjection =>
        /\ thrown = NoError
        /\ ctx.body = extract(act.behaviour.value, "returning")
        /\ ctx.body # act.behaviour.value
        /\ (mode = "responded" /\ delivered.status \notin EmptyStatus) =>
              delivered.body = extract(act.behaviour.value, "returning")

C20_Witness ==
    /\ ReturnedForProjection
    /\ act.behaviour.setBody = <<Obj("assigned")>>
    /\ mode = "responded"
    /\ delivered = [status |-> 200, body |-> extract(Obj("returned"), "returning")]

----------------------------------------------------------------------------
(* Claims about the composition pass with asynchronous callbacks           *)
(* (SpecAsync).                                                            *)

\* the calls of one callback of factory f, and the callbacks called on f
CallsOf(fn, f) == SelectSeq(calls, LAMBDA call : call.fn = fn /\ call.f = f)
CallsOn(f) == SelectSeq(calls, LAMBDA call : call.f = f)

\* the callbacks a complete createRoutes(f) calls, in order
StepsOf(f) ==
    <<"getDependencies", "create">>
    \o (IF factories[f].hasMiddleware THEN <<"middleware">> ELSE <<>>)
    \o (IF HasNested(f) THEN <<"nested">> ELSE <<>>)

\* createRoutes(f) has got what its getDependencies returned
GotDependencies(f) == pc[f] \notin {"idle", "getDependencies"} /\ deps[f] # 0

\* C17: in a composition pass every factory, at any depth, has its
\* getDependencies called exactly once, and its create, middleware and
\* nested are called with the value that call returned, never with the
\* value the getDependencies of its parent returned.
C17_OwnDependencies ==
    /\ \A f \in Factories :
         /\ Len(CallsOf("getDependencies", f)) = (IF pc[f] = "idle" THEN 0 ELSE 1)
         /\ Composed => pc[f] = "done"
    /\ \A i \in 1 .. Len(calls) :
         calls[i].fn # "getDependencies" =>
            /\ GotDependencies(calls[i].f)
            /\ calls[i].arg = deps[calls[i].f]
            /\ ParentOf(calls[i].f) # 0 => calls[i].arg # deps[ParentOf(calls[i].f)]

\* the pass is complete and the factory nested deepest had its three
\* callbacks called with its own dependencies
C17_Witness ==
    /\ ~sync
    /\ phase = "mounted"
    /\ CallsOf("getDependencies", 3) = <<Call("getDependencies", 3, 0)>>
    /\ CallsOf("create", 3) = <<Call("create", 3, deps[3])>>
    /\ CallsOf("middleware", 3) = <<Call("middleware", 3, deps[3])>>
    /\ CallsOf("nested", 2) = <<Call("nested", 2, deps[2])>>
    /\ deps[3] # deps[2]

\* the factories from f up to the top-level one
Ancestry(f) == { ChainOf(f)[i] : i \in 1 .. Len(ChainOf(f)) }

\* C18: if the getDependencies or create (or middleware, or nested) of any
\* factory throws or rejects, createRouterFactories rejects with the error
\* of such a factory, as does every createRoutes and createAllRoutes
\* between it and that factory; no route list and no router is returned.
\* Without such a failure nothing rejects.
C18_AllOrNothing ==
    /\ Failures # {} =>
         /\ phase = "rejected"
         /\ allRoutes = <<>>
         /\ router = <<>>
         /\ \E f \in Failures :
               \A g \in Ancestry(f) \cup {0} : rejected[g] = rejected[f]
         /\ \A f \in Failures : \A g \in Ancestry(f) \cup {0} : rejected[g] # NoRejection
    /\ Failures = {} =>
         /\ phase # "rejected"
         /\ \A g \in 0 .. Len(ParentTable) : rejected[g] = NoRejection

\* the create of the factory nested deepest rejected: every promise above
\* it rejected with that error, while a sibling ran on to its end
C18_Witness ==
    /\ phase = "rejected"
    /\ rejected[3] = Rejection("create", 3)
    /\ rejected[2] = rejected[3] /\ rejected[1] = rejected[3] /\ rejected[0] = rejected[3]
    /\ pc[5] = "done"
    /\ allRoutes = <<>> /\ router = <<>>

IsPrefix(short, long) ==
    Len(short) <= Len(long) /\ \A i \in 1 .. Len(short) : short[i] = long[i]

\* the position of the first call of fn on f, 0 when there is none
PositionOf(fn, f) ==
    IF \E i \in 1 .. Len(calls) : calls[i].fn = fn /\ calls[i].f = f
    THEN CHOOSE i \in 1 .. Len(calls) :
            /\ calls[i].fn = fn /\ calls[i].f = f
            /\ \A j \in 1 .. i - 1 : ~(calls[j].fn = fn /\ calls[j].f = f)
    ELSE 0

\* C19: the callbacks of a factory are called in the order getDependencies,
\* create, middleware (if declared), nested (if declared), one at a time,
\* each call made once the one before has returned; the getDependencies of
\* a nested factory is called after its parent's create and middleware
\* have returned and its nested has been called. This holds however the
\* awaits of independent factories interleave.
C19_StepOrder ==
    \A f \in Factories :
        LET fns == [i \in 1 .. Len(CallsOn(f)) |-> CallsOn(f)[i].fn]
        IN  /\ IsPrefix(fns, StepsOf(f))
            /\ pc[f] \in {"getDependencies", "create", "middleware", "nested"} =>
                  fns # <<>> /\ fns[Len(fns)] = pc[f]
            /\ pc[f] \in {"createAllRoutes", "done"} => fns = StepsOf(f)
            /\ (ParentOf(f) # 0 /\ pc[f] # "idle") =>
                  /\ pc[ParentOf(f)] \in {"createAllRoutes", "done", "failed"}
                  /\ CallsOn(ParentOf(f)) = [i \in 1 .. Len(StepsOf(ParentOf(f))) |->
                        Call(StepsOf(ParentOf(f))[i], ParentOf(f),
                             IF i = 1 THEN 0 ELSE deps[ParentOf(f)])]
                  /\ factories[ParentOf(f)].hasMiddleware => routerMw[ParentOf(f)].has
                  /\ PositionOf("getDependencies", f) > PositionOf("nested", ParentOf(f))

\* a complete pass in which the create of the last top-level factory was
\* called only after the factory nested deepest had been reached, and the
\* parents declared middleware
C19_Witness ==
    /\ ~sync
    /\ phase = "mounted"
    /\ factories[1].hasMiddleware /\ factories[2].hasMiddleware
    /\ PositionOf("create", 5) > PositionOf("getDependencies", 3)
    /\ PositionOf("getDependencies", 3) > PositionOf("middleware", 2)
    /\ PositionOf("middleware", 4) < PositionOf("create", 2)

----------------------------------------------------------------------------
(* Prefix containment (SpecCompose).                                       *)

\* the path begins with the segments of the normalised prefix
Within(prefix, path) ==
    IsPrefix(IF prefix = EmptyStr THEN <<>> ELSE Segments(normalize(prefix)), Segments(path))

\* a relative path that, once normalised, begins with ".."
Climbs(path) == normalize(path)[1] = ".."

\* the routes createRoutes(f) joins its prefix to: its own declarations and
\* the routes of its nested factories, path arrays expanded
JoinedBy(f) == flatRoutes(created[f] \o createAllRoutesReturn(ChildrenOf(f), made))

----------------------------------------------------------------------------
(* Claims about validation messages and failures (Spec).                   *)

\* a JSONSchema rejected the body or the query
JsonRejected == phase = "request" /\ log.ajv # <<>>

\* one violation as the message is to show it
Violation(error) ==
    IF DOMAIN error.params = {"additionalProperty"}
    THEN <<"should NOT have additional properties", ": ", error.params.additionalProperty>>
    ELSE <<error.dataPath, ": ", error.message>>

\* the violations one after the other, ', ' between them
RECURSIVE Listed(_)
Listed(errors) ==
    IF Len(errors) = 1 THEN Violation(errors[1])
    ELSE Violation(errors[1]) \o <<", ">> \o Listed(Tail(errors))

\* C22: when a JSONSchema rejects, the error thrown has status 400 and the
\* message 'validation error: [...]' listing every violation ajv reported;
\* the entry of an additionalProperties violation is '<ajv message>: <name
\* of the unexpected property>'; the envelope of propagateErrors carries
\* that message with code 400.
C22_ValidationMessage ==
    JsonRejected =>
        /\ thrown.class = "BaseError"
        /\ StatusOf(thrown) = 400
        /\ thrown.message = [text |-> "validation error: [${err}]", err |-> Listed(log.ajv)]
        /\ log.ajv = <<AdditionalProperty("foo")>> =>
              thrown.message.err = <<"should NOT have additional properties", ": ", "foo">>
        /\ NotInvoked
        /\ Enveloped =>
              /\ ctx.status = 400
              /\ ctx.body = [t |-> "object", success |-> FALSE, code |-> 400,
                             message |-> thrown.message, data |-> Null]

\* the body {a: true, foo: 'bat'} was rejected and the envelope sent, by
\* either propagateErrors(false) or propagateErrors(true)
C22_Witness ==
    /\ JsonRejected
    /\ log.called = {"schema"}
    /\ log.ajv = <<AdditionalProperty("foo")>>
    /\ mode = "responded"
    /\ delivered.status = 400
    /\ delivered.body.code = 400
    /\ delivered.body.message.err = <<"should NOT have additional properties", ": ", "foo">>

----------------------------------------------------------------------------
(* Claims about pagination (SpecPaginate).                                 *)

\* the action of a route under paginate has run
Paginated ==
    /\ phase = "paginate"
    /\ declared.middleware # <<>>
    /\ act # NoAction

\* the action of a route without paginate has run
Unpaginated ==
    /\ phase = "paginate"
    /\ declared.middleware = <<>>
    /\ act # NoAction

\* what the action did with ctx.state.pagination
Use == act.behaviour.pagination
AddedTotal == Use # <<>> /\ Use[1].op = "addPagination"

\* the number a string of digits spells
RECURSIVE Spelt(_)
Spelt(str) ==
    IF str = <<>> THEN 0
    ELSE 10 * Spelt(SubSeq(str, 1, Len(str) - 1)) + DigitValue(str[Len(str)])

\* the page size of the request: count if given, else defaultCount
PageSize ==
    IF request.query.count.given THEN Spelt(request.query.count.str)
    ELSE declared.middleware[1].defaultCount

\* k = ceil(total / size)
IsCeiling(k, total, size) == k * size >= total /\ (k - 1) * size < total

\* no paginate is waiting for the chain below it
PaginateDone == \A i \in 1 .. Len(frames) : frames[i].kind # "paginate"

\* What does hold of the pagination state and meta: under
\* paginate(defaultCount, maxLimit) the action runs
\* only for a query whose page spells n >= 1 and whose page size (count if
\* given, else defaultCount) is at most maxLimit, and it observes
\* ctx.state.pagination = {page: n - 1, pageSize}; when the action has called
\* addPagination(ctx, total) and returned, and the page size is at least 1,
\* the meta of the request holds total and pages = ceil(total / pageSize)
\* once paginate has completed and the response shows them; for a count of
\* 0 pages is Infinity, or NaN when total is 0.
C23_PaginationMeta ==
    Paginated =>
        /\ MatchesDigits(request.query.page.str)
        /\ Spelt(request.query.page.str) >= 1
        /\ request.query.count.given => MatchesDigits(request.query.count.str)
        /\ PageSize <= declared.middleware[1].maxLimit
        /\ (Use = <<>> \/ AddedTotal) =>
              /\ act.ctx.state.pagination.page = Finite(Spelt(request.query.page.str) - 1)
              /\ act.ctx.state.pagination.pageSize = Finite(PageSize)
        /\ (AddedTotal /\ act.kind = "return" /\ PaginateDone) =>
              /\ mode \in {"return", "responded"}
              /\ ctx.state.meta.has
              /\ DOMAIN ctx.state.meta.props = {"total", "pages"}
              /\ ctx.state.meta.props.total = Use[1].total
              /\ PageSize >= 1 =>
                    /\ ctx.state.meta.props.pages.finite
                    /\ IsCeiling(ctx.state.meta.props.pages.n, Use[1].total, PageSize)
              /\ PageSize = 0 =>
                    ctx.state.meta.props.pages = IF Use[1].total = 0 THEN NaN ELSE Infinity
              /\ (mode = "responded" /\ "meta" \in DOMAIN delivered.body) =>
                    delivered.body.meta.props = ctx.state.meta.props

\* page=2&count=2 with a total of 5: the action saw page 1 of size 2 and the
\* response shows 3 pages
C23_Witness ==
    /\ Paginated
    /\ request.query = [page |-> Given(<<"2">>), count |-> Given(<<"2">>)]
    /\ AddedTotal
    /\ act.ctx.state.pagination.page = Finite(1)
    /\ act.ctx.state.pagination.pageSize = Finite(2)
    /\ mode = "responded"
    /\ delivered.status = 200
    /\ "success" \in DOMAIN delivered.body
    /\ delivered.body.success
    /\ delivered.body.meta.props = [total |-> 5, pages |-> Finite(3)]

\* C23: under paginate(defaultCount, maxLimit), once the action has called
\* addPagination(ctx, total) and the chain below paginate has completed,
\* the meta of the request holds total and pages = ceil(total / pageSize),
\* pageSize being count if given, else defaultCount.
C23_PagesIsCeiling ==
    (Paginated /\ AddedTotal /\ act.kind = "return" /\ PaginateDone) =>
        /\ ctx.state.meta.has
        /\ ctx.state.meta.props.total = Use[1].total
        /\ ctx.state.meta.props.pages.finite
        /\ IsCeiling(ctx.state.meta.props.pages.n, Use[1].total, PageSize)

\* C24: when the chain below paginate completes without addPagination having
\* been called, or with ctx.state.pagination deleted, paginate throws an
\* error of status 500 and adds no pagination meta; addPagination called on
\* a request that did not pass through paginate throws an error of status
\* 500 and leaves ctx.state as it was.
C24_PaginationProtocol ==
    /\ (Paginated /\ act.kind = "return" /\ ~AddedTotal /\ PaginateDone) =>
          /\ emitted = <<>> => mode \in {"throw", "uncaught"}
          /\ thrown.class = "BaseError"
          /\ StatusOf(thrown) = 500
          /\ thrown.message =
                IF Use = <<>>
                THEN Msg("Forgot to call addPagination in action wrapped by pagination middleware")
                ELSE Msg("Somehow, pagination state was deleted")
          /\ ctx.state.meta = NoMeta
          /\ emitted # <<>> => ctx.status = 500 /\ ~ctx.body.success
    /\ (Unpaginated /\ AddedTotal) =>
          /\ act.kind = "throw"
          /\ emitted = <<>> => mode \in {"throw", "uncaught"}
          /\ emitted # <<>> => ctx.status = 500 /\ ~ctx.body.success
          /\ thrown.class = "BaseError"
          /\ StatusOf(thrown) = 500
          /\ thrown.internalMessage =
                Msg("Called addPagination without wrapping pagination middleware")
          /\ act.ctx.state.pagination = NoPagination
          /\ act.ctx.state.meta = NoMeta
          /\ ctx.state.pagination = NoPagination /\ ctx.state.meta = NoMeta

\* the action returned its results without calling addPagination, and the
\* client was sent the envelope of paginate's error
C24_Witness ==
    /\ Paginated
    /\ act.kind = "return"
    /\ Use = <<>>
    /\ mode = "responded"
    /\ thrown.message = Msg("Forgot to call addPagination in action wrapped by pagination middleware")
    /\ delivered.status = 500
    /\ ctx.state.meta = NoMeta

----------------------------------------------------------------------------
(* The inputs of a composition pass (SpecCompose).                         *)

\* C25: a composition pass does not modify its inputs: once createAllRoutes
\* has completed, the array each factory's create returned holds what it
\* held when create returned it.
C25_InputsUnchanged ==
    Composed => \A f \in Factories : arrays[f] = created[f]

\* What does hold: the array create returned is as it was for a factory
\* without nested; for one with nested it has grown by the routes
\* createAllRoutes(nested) returned, the factory's own declarations ahead.
C25_GrownByNested ==
    Composed =>
        \A f \in Factories :
            /\ arrays[f] = created[f] \o createAllRoutesReturn(ChildrenOf(f), made)
            /\ ~HasNested(f) => arrays[f] = created[f]
            /\ (HasNested(f) /\ createAllRoutesReturn(ChildrenOf(f), made) # <<>>) =>
                  Len(arrays[f]) > Len(created[f])

----------------------------------------------------------------------------
(* Request isolation (SpecConcurrent).                                     *)

\* the request whose handlers are running
Handling ==
    Suspended(request, declared, rest, frames, mode, ctx, thrown, log, act, delivered)

\* the keys the addMeta calls of request r passed
KeysOf(r) == UNION { DOMAIN r.log.addMeta[i] : i \in 1 .. Len(r.log.addMeta) }

\* the last addMeta call of request r that passed `key`
LastOf(r, key) ==
    CHOOSE i \in 1 .. Len(r.log.addMeta) :
        /\ key \in DOMAIN r.log.addMeta[i]
        /\ \A j \in (i + 1) .. Len(r.log.addMeta) : key \notin DOMAIN r.log.addMeta[j]

\* the success envelope sent for r shows the metadata r's own addMeta calls
\* passed, and nothing else
OwnMeta(r) ==
    (r.mode = "responded" /\ r.act.kind = "return" /\ IsEnvelope(r.delivered.body)) =>
        /\ r.delivered.body.success = TRUE
        /\ r.delivered.body.data = r.act.behaviour.value
        /\ IF r.log.addMeta = <<>> THEN r.delivered.body.meta = Undefined
           ELSE /\ DOMAIN r.delivered.body.meta.props = KeysOf(r)
                /\ \A key \in KeysOf(r) :
                     r.delivered.body.meta.props[key] = r.log.addMeta[LastOf(r, key)][key]

\* r's action threw below a propagateErrors instance: the first instance
\* of r's chain is waiting, or has caught the error, enveloped it and
\* emitted the event
OwnEnvelope(r) ==
    (r.act.kind = "throw" /\ r.log.entered # <<>>) =>
        /\ r.ctx.state.hasPropagateErrorWrapping
        /\ r.mode # "uncaught"
        /\ r.mode = "throw" => r.frames # <<>> /\ r.frames[1] = PropagateErrors(r.log.entered[1])
        /\ r.mode \in {"return", "responded"} =>
             /\ r.log.caught = <<r.log.entered[1]>>
             /\ r.ctx.status = StatusOf(r.thrown)
             /\ r.ctx.body = errorEnvelope(r.thrown, r.ctx.status, r.log.entered[1])
             /\ \E i \in 1 .. Len(emitted) :
                  emitted[i] = [error |-> r.thrown, response |-> r.ctx.body]
        /\ r.mode = "responded" => r.delivered.body = r.ctx.body

\* a handler's step leaves what the other request owns as it was: it
\* changes only when the event loop turns to it
OwnState == (other' # other) => (other' = Handling /\ Handling' = other)

\* C26: for every interleaving of two concurrent requests through the same
\* router, the guard, the meta bag and the pagination state of one request
\* are neither read nor written while the other is handled: each success
\* envelope shows only the metadata its own request added, and a failure or
\* a set guard in one request never keeps the other's error from being
\* enveloped.
C26_RequestIsolation ==
    /\ [](phase = "concurrent" =>
            /\ OwnMeta(Handling) /\ OwnMeta(other)
            /\ OwnEnvelope(Handling) /\ OwnEnvelope(other))
    /\ [][OwnState]_vars

\* both requests were answered: one with the envelope of its action's
\* error, under a guard it set itself, the other with a success envelope
\* showing the metadata it added, which differs from what the first added
C26_Witness ==
    /\ phase = "concurrent"
    /\ mode = "responded" /\ other.mode = "responded"
    /\ other.act.kind = "throw"
    /\ other.log.entered = <<TRUE, FALSE>>
    /\ other.log.addMeta = << [page |-> 1] >>
    /\ other.delivered.body.success = FALSE
    /\ act.kind = "return"
    /\ ctx.state.hasPropagateErrorWrapping
    /\ log.addMeta = << [page |-> 2, pages |-> 100] >>
    /\ delivered.body.meta = Shown(Bag([page |-> 2, pages |-> 100]))

----------------------------------------------------------------------------
(* How failures leave the validation stages and the action wrapper (Spec). *)

\* a validation stage threw: the body was missing, or a validator returned
\* something other than true
StageFailed == BodyMissing \/ ValidationFailed

\* the action wrapper threw: the action did, or the wrapper's own check of
\* the returned value
WrapperFailed ==
    /\ phase = "request"
    /\ act # NoAction
    /\ thrown # NoError

\* what reached the wrapper's catch block
Raised ==
    IF act.behaviour.kind = "throw" THEN act.behaviour.error
    ELSE ThrownObject(Some(500), MissingReturn(request.path))

\* the error is in flight, has reached the host, or was caught by a
\* propagateErrors instance above, which enveloped it: no stage below
\* settled it
Propagated ==
    /\ mode \in {"throw", "uncaught", "return", "responded"}
    /\ mode \in {"return", "responded"} =>
         /\ emitted = << [error |-> thrown, response |-> ctx.body] >>
         /\ ctx.body.success = FALSE
    /\ mode = "responded" => delivered.body = ctx.body

\* C27 (as amended): every failure raised by a validation stage or by the
\* action wrapper propagates upward as a thrown error, never swallowed or
\* turned into a normal response by that stage. A failure of the action
\* wrapper carries a numeric code (the error's own code when that is
\* truthy, else -1) and a status field (the error's own status, else its
\* statusCode, else 500), and a string thrown by an action is first
\* converted to an Error whose message is that string. A failure of a
\* validation stage is thrown as it is: the BaseError of a missing body or
\* of JSONSchema has code 400 and statusCode 400 and no status field, and
\* what another validator returned has the fields the validator gave it.
C27_FailuresPropagate ==
    /\ StageFailed =>
         /\ Propagated
         /\ thrown.class \in {"BaseError", "Error"}
         /\ thrown.status = None
         /\ thrown.internalMessage = Undefined
         /\ thrown.class = "BaseError" =>
              thrown.code = Some(400) /\ thrown.statusCode = Some(400)
         /\ thrown.class = "Error" => thrown.code = None /\ thrown.statusCode = None
    /\ WrapperFailed =>
         /\ Propagated
         /\ thrown.code = OrNum(Raised.code, Some(-1))
         /\ thrown.code # None /\ thrown.code # Some(0)
         /\ thrown.status = OrNum(Raised.status, OrNum(Raised.statusCode, Some(500)))
         /\ thrown.status # None
         /\ Raised.class = "string" =>
              /\ thrown.class = "Error"
              /\ thrown.internalMessage = Raised.message
              /\ nodeEnv # "production" => thrown.message = Raised.message
         /\ Raised.class # "string" => thrown.class = Raised.class

\* an action threw a string: an Error with that message, code -1 and status
\* 500 reached the host
C27_Witness ==
    /\ WrapperFailed
    /\ Raised = ThrownString("secret")
    /\ thrown.class = "Error"
    /\ thrown.message = Msg("secret")
    /\ thrown.code = Some(-1)
    /\ thrown.status = Some(500)
    /\ mode = "uncaught"

\* C27 (as claimed): every failure raised by a validation stage or by the
\* action wrapper propagates as a thrown error that carries a numeric code,
\* -1 when none was given, and a status field.
C27_Annotated ==
    (StageFailed \/ WrapperFailed) =>
        /\ Propagated
        /\ thrown.code # None
        /\ thrown.status # None

----------------------------------------------------------------------------
(* The defaults of the error envelope (Spec).                              *)

\* the error propagateErrors caught
Caught == emitted[1].error

\* the status, code and data of the claim: a field the error has, else the
\* default
ClaimedStatus(error) ==
    IF error.status # None THEN error.status[1]
    ELSE IF error.statusCode # None THEN error.statusCode[1]
    ELSE 500

ClaimedCode(error, status) == IF error.code # None THEN error.code[1] ELSE status

ClaimedData(error) == IF error.data # Undefined THEN error.data ELSE Null

\* C28: for any error caught by propagateErrors the HTTP status is the
\* error's status if it has one, else its statusCode, else 500; the
\* envelope's code is the error's code if it has one, else that status; the
\* envelope's data is the error's attached data, else null. A request that
\* throws nothing has no event emitted.
C28_EnvelopeDefaults ==
    /\ Enveloped =>
         /\ ctx.status = ClaimedStatus(Caught)
         /\ ctx.body.code = ClaimedCode(Caught, ctx.status)
         /\ ctx.body.data = ClaimedData(Caught)
    /\ (phase = "request" /\ thrown = NoError) => emitted = <<>>

\* What does hold: the same for errors whose attached data is not a falsy
\* value; falsy data (0, false, '') is enveloped as null.
C28_TruthyDefaults ==
    /\ (Enveloped /\ Truthy(Caught.data)) =>
         /\ ctx.status = ClaimedStatus(Caught)
         /\ ctx.body.code = ClaimedCode(Caught, ctx.status)
         /\ ctx.body.data = ClaimedData(Caught)
    /\ (Enveloped /\ ~Truthy(Caught.data)) =>
         /\ ctx.status = ClaimedStatus(Caught)
         /\ ctx.body.code = ClaimedCode(Caught, ctx.status)
         /\ ctx.body.data = Null
    /\ (phase = "request" /\ thrown = NoError) => emitted = <<>>

----------------------------------------------------------------------------
(* The order of the two validation stages (Spec).                          *)

\* the route declares both schemas
BothDeclared == phase = "request" /\ declared.schema /\ declared.querySchema

\* schema.validate was called with the body and returned something other
\* than true
BodyInvalid == BothDeclared /\ "schema" \in log.called \ log.passed

\* C29: on a route declaring both schema and querySchema, when the body is
\* invalid the error delivered is the one schema.validate returned and
\* querySchema.validate is never invoked, whatever it would have returned
\* for the query; when the body is missing neither validator is invoked;
\* querySchema.validate is invoked only after schema.validate returned
\* true.
C29_ValidationPrecedence ==
    /\ BodyInvalid =>
         /\ log.called = {"schema"}
         /\ "querySchema" \notin log.started
         /\ NotInvoked
         /\ thrown.class \in {"BaseError", "Error"}
         /\ log.ajv # <<>> => thrown = JSONSchemaValidate(log.ajv).error
         /\ mode \in {"throw", "uncaught"} \/ Enveloped
         /\ Enveloped =>
              /\ emitted = << [error |-> thrown, response |-> ctx.body] >>
              /\ ctx.status = StatusOf(thrown)
              /\ ctx.body = errorEnvelope(thrown, ctx.status, log.caught[1])
    /\ (BothDeclared /\ BodyMissing) =>
         /\ log.called = {}
         /\ "querySchema" \notin log.started
         /\ thrown = BaseError(BodyRequired, 400, 400)
    /\ (BothDeclared /\ "querySchema" \in log.started) => "schema" \in log.passed

\* the body failed the JSON schema of a route that declares both schemas:
\* the response is the envelope of that error, querySchema was not asked
C29_Witness ==
    /\ BodyInvalid
    /\ log.ajv = << AdditionalProperty("foo") >>
    /\ log.called = {"schema"}
    /\ Enveloped
    /\ mode = "responded"
    /\ delivered.status = 400
    /\ delivered.body.message = thrown.message

----------------------------------------------------------------------------
(* A returned value and a body set directly (Spec).                        *)

\* the action assigned ctx.body and returned a truthy value
AssignedAndReturned ==
    /\ phase = "request"
    /\ act.kind = "return"
    /\ act.behaviour.setBody # None
    /\ Truthy(act.behaviour.value)

\* the body the wrapper makes of a returned value v
BodyOf(v) == IF declared.returning THEN extract(v, "returning") ELSE v

\* C30: when an action both assigns ctx.body and returns a truthy value v,
\* the body of the response is v, or extract(v, returning) when returning
\* is declared, not the value the action assigned; it is what koa sends
\* unless the action set a status that is sent without a body.
C30_ReturnedValueWins ==
    AssignedAndReturned =>
        /\ thrown = NoError
        /\ act.ctx.body = act.behaviour.setBody[1]
        /\ ctx.body = BodyOf(act.behaviour.value)
        /\ ctx.body # act.behaviour.setBody[1]
        /\ ctx.status = act.ctx.status
        /\ (mode = "responded" /\ delivered.status \notin EmptyStatus) =>
              delivered = [status |-> 200, body |-> BodyOf(act.behaviour.value)]

\* on a route without returning the action assigned one object and
\* returned another: the response carries the one returned
C30_Witness ==
    /\ AssignedAndReturned
    /\ ~declared.returning
    /\ act.ctx.body = Obj("assigned")
    /\ mode = "responded"
    /\ delivered = [status |-> 200, body |-> Obj("returned")]

----------------------------------------------------------------------------
(* A status of 204 set before the action returns (Spec).                   *)

\* the action returned on a route without returning, ctx.status being 204
Explicit204 ==
    /\ phase = "request"
    /\ act.kind = "return"
    /\ act.ctx.status = 204
    /\ ~declared.returning

\* C31: if ctx.status is already 204 when the action returns, then for
\* every returned value, undefined with no body set included, the action
\* wrapper raises no missing-return error, keeps status 204 and sets the
\* body to the returned value if it is truthy and to the empty string
\* otherwise (on a route without returning); koa sends status 204 without
\* a body.
C31_Explicit204 ==
    Explicit204 =>
        /\ thrown = NoError
        /\ mode \in {"return", "responded"}
        /\ ctx.status = 204
        /\ ctx.body = IF Truthy(act.behaviour.value) THEN act.behaviour.value ELSE EmptyString
        /\ mode = "responded" => delivered = EmptyResponse

\* the action set status 204, assigned no body and returned undefined: no
\* error, body '' and status 204
C31_Witness ==
    /\ Explicit204
    /\ act.behaviour.setStatus = Some(204)
    /\ act.behaviour.setBody = None
    /\ act.behaviour.value = Undefined
    /\ ctx.body = EmptyString
    /\ mode = "responded"
    /\ delivered.status = 204

----------------------------------------------------------------------------
(* The requests paginate turns away (SpecPaginate).                        *)

\* the query fails the pagination schema: page is missing or is not a
\* string of digits, or count is given and is not one
FailsSchema ==
    \/ ~request.query.page.given
    \/ ~MatchesDigits(request.query.page.str)
    \/ request.query.count.given /\ ~MatchesDigits(request.query.count.str)

\* the query passes the schema, and its page size is above maxLimit or its
\* page below 1
OutOfBounds ==
    IF FailsSchema THEN FALSE
    ELSE \/ PageSize > declared.middleware[1].maxLimit
         \/ Spelt(request.query.page.str) < 1

\* paginate has started on such a request
TurnedAway ==
    /\ phase = "paginate"
    /\ declared.middleware # <<>>
    /\ "middleware" \in log.started
    /\ FailsSchema \/ OutOfBounds

\* C32: the action wrapped by paginate(defaultCount, maxLimit) is never
\* invoked when the query fails the pagination schema, when pageSize >
\* maxLimit, or when page is not a number or is < 1; each of these requests
\* fails with a status-400 error and ctx.state.pagination is not set.
C32_PaginationBounds ==
    TurnedAway =>
        /\ act = NoAction
        /\ "action" \notin log.started
        /\ ctx.state.pagination = NoPagination
        /\ ~ctx.state.meta.has
        /\ thrown.class = "BaseError"
        /\ thrown.statusCode = Some(400)
        /\ emitted = <<>> => mode \in {"throw", "uncaught"}
        /\ emitted # <<>> =>
             /\ mode \in {"return", "responded"}
             /\ ctx.status = 400
             /\ ctx.body.success = FALSE
        /\ mode = "responded" => delivered.status = 400

\* page=1&count=10 under paginate(2, maxLimit): answered with status 400, the
\* action was not invoked
C32_Witness ==
    /\ TurnedAway
    /\ request.query = [page |-> Given(<<"1">>), count |-> Given(<<"1", "0">>)]
    /\ declared.middleware[1].defaultCount < declared.middleware[1].maxLimit
    /\ act = NoAction
    /\ mode = "responded"
    /\ delivered.status = 400
    /\ delivered.body.message = Msg("Pagination limit was too high")

----------------------------------------------------------------------------
(* The order of the route table (SpecAsync).                               *)

\* the routes of factory f's own declarations: in the order create returned
\* them, a path array in array order
OwnEntries(f) ==
    concatAll([k \in 1 .. Len(created[f]) |->
        [j \in 1 .. Len(created[f][k].path.strs) |->
            [action |-> <<f, k>>, path |-> Prefixed(ChainOf(f), created[f][k].path.strs[j])]]])

\* then the routes of the factories nested() returned, in that order
RECURSIVE EntriesOf(_)
EntriesOf(f) ==
    OwnEntries(f)
    \o concatAll([i \in 1 .. Len(ChildrenOf(f)) |-> EntriesOf(ChildrenOf(f)[i])])

\* the declaration and path of each route of the table, in order
TableOrder ==
    [i \in 1 .. Len(allRoutes) |->
        [action |-> allRoutes[i].action, path |-> allRoutes[i].path.strs[1]]]

\* C33: the list createAllRoutes returns is ordered by the input factory
\* list; within one factory its own declarations come first, in the order
\* create returned them and with path-array elements in array order,
\* followed by the routes of its nested factories in the order nested
\* returned them, whatever the order in which the factories' asynchronous
\* getDependencies, create and middleware steps complete.
C33_RouteOrder ==
    Composed =>
        TableOrder = concatAll([i \in 1 .. Len(ChildrenOf(0)) |-> EntriesOf(ChildrenOf(0)[i])])

\* the callbacks were asynchronous, create of factory 4 was called before
\* create of its elder sibling 2 and create of 3 before create of 1's
\* sibling 5 had been; the table lists 1, 2, 3, 4, the two paths of 4's
\* declaration in array order
C33_Witness ==
    /\ ~sync
    /\ Composed
    /\ PositionOf("create", 4) < PositionOf("create", 2)
    /\ PositionOf("create", 3) < PositionOf("create", 5)
    /\ [i \in 1 .. Len(allRoutes) |-> allRoutes[i].action[1]] = <<1, 1, 2, 3, 4, 4>>
    /\ allRoutes[5].path.strs[1] = Prefixed(<<1, 4>>, PathAt[1])
    /\ allRoutes[6].path.strs[1] = Prefixed(<<1, 4>>, PathAt[2])

----------------------------------------------------------------------------
(* Nested propagateErrors instances (SpecNested).                          *)

\* the instance the request meets first, and the ones below it
Outermost == declared.routerMiddleware[1]
Inner == SelectSeq(Tail(declared.routerMiddleware), LAMBDA stage : stage.kind = "propagateErrors")

\* the response the instance `stage` makes of an error
ResponseOf(stage, error) ==
    LET status == StatusOf(error)
        body == [ t       |-> "object",
                  success |-> FALSE,
                  code    |-> OrNum(error.code, Some(status))[1],
                  message |-> filterInternalMessages(status, error.message,
                                                     stage.includeInternalErrors),
                  data    |-> OrVal(error.data, Null) ]
    IN  IF stage.transform = "undefined" THEN body
        ELSE transformed(stage.transform, error, body)

\* C34: when several propagateErrors instances with different
\* includeInternalErrors flags or transform functions are nested on one
\* request, the response is determined only by the flag and transform of
\* the outermost instance; the inner instances' flag and transform are
\* never consulted and their transform is never called.
C34_OutermostGoverns ==
    phase = "nested" =>
        /\ \A i \in 1 .. Len(log.transforms) : log.transforms[i] = Outermost.transform
        /\ \A i \in 1 .. Len(log.caught) : log.caught[i] = Outermost.includeInternalErrors
        /\ Len(frames) <= 1
        /\ frames # <<>> => frames[1] = Outermost
        /\ emitted # <<>> =>
             /\ thrown # NoError
             /\ Len(log.caught) = 1
             /\ log.transforms = IF Outermost.transform = "undefined" THEN <<>>
                                 ELSE <<Outermost.transform>>
             /\ ctx.status = StatusOf(thrown)
             /\ ctx.body = ResponseOf(Outermost, thrown)
             /\ emitted = << [error |-> thrown, response |-> ResponseOf(Outermost, thrown)] >>
             /\ mode = "responded" =>
                  delivered = [status |-> StatusOf(thrown), body |-> ResponseOf(Outermost, thrown)]
        /\ (thrown # NoError /\ mode \in {"return", "responded"}) => emitted # <<>>

\* propagateErrors(false) around propagateErrors(true, b): an action's
\* err(500, 'foo', 7) was answered with the redacted envelope, b was not called
C34_Witness ==
    /\ phase = "nested"
    /\ Outermost = PropagateErrors(FALSE)
    /\ Inner = << PropagateErrorsWith(TRUE, "b") >>
    /\ act.kind = "throw"
    /\ act.behaviour.error = err(500, Msg("foo"), 7)
    /\ log.entered = <<FALSE, TRUE>>
    /\ log.transforms = <<>>
    /\ mode = "responded"
    /\ delivered.status = 500
    /\ delivered.body.message = InternalServerError

----------------------------------------------------------------------------
(* An error below propagateErrors and propagateValues (SpecValues).        *)

\* the action threw below at least one propagateErrors instance
ThrewBelow ==
    /\ phase = "values"
    /\ act.kind = "throw"
    /\ log.entered # <<>>

\* C35: with propagateErrors (without transform) and propagateValues both
\* on a request's chain, in either stacking order, a request whose action
\* throws ends with the error envelope {success: false, ...} as its body;
\* the body is never {success: true, data: <error envelope>} and never a
\* success envelope of a body the action had assigned before it threw; a
\* propagateValues instance above the catching propagateErrors finds the
\* envelope and leaves it.
C35_NeverSuccessWrapped ==
    /\ (phase = "values" /\ act.kind = "throw") =>
         /\ ~(IsEnvelope(ctx.body) /\ ctx.body.success = TRUE)
         /\ emitted = <<>> => ctx.body = act.ctx.body
    /\ ThrewBelow =>
         /\ mode \in {"throw", "return", "responded"}
         /\ mode = "throw" => emitted = <<>> /\ log.wrapped = <<>>
         /\ mode \in {"return", "responded"} =>
              /\ emitted = << [error |-> thrown, response |-> ctx.body] >>
              /\ ctx.status = 419
              /\ ctx.body = errorEnvelope(thrown, 419, log.entered[1])
              /\ \A i \in 1 .. Len(log.wrapped) : log.wrapped[i].body = ctx.body
         /\ mode = "responded" => delivered = [status |-> 419, body |-> ctx.body]

\* propagateValues above propagateErrors: the action assigned a body and
\* threw, propagateValues found the error envelope and the response is that
\* envelope
C35_Witness ==
    /\ ThrewBelow
    /\ act.behaviour.setBody = <<Obj("assigned")>>
    /\ Len(log.wrapped) = 1
    /\ log.wrapped[1].body = errorEnvelope(thrown, 419, TRUE)
    /\ mode = "responded"
    /\ delivered.status = 419
    /\ delivered.body.success = FALSE
    /\ delivered.body.data = Obj("data")

----------------------------------------------------------------------------
(* The returning projection and a body set directly (Spec).                *)

\* on a route that declares returning the action assigned ctx.body and
\* returned undefined or another falsy value
AssignedForProjection ==
    /\ phase = "request"
    /\ declared.returning
    /\ act.kind = "return"
    /\ act.behaviour.setBody # None
    /\ Falsy(act.behaviour.value)

\* C36: on a route that declares returning, when the action assigns
\* ctx.body and returns undefined (or another falsy value) the action
\* wrapper leaves the body exactly as assigned, unless the status is 204 by
\* then: the returning projection is applied only to a truthy returned
\* value, or to the returned value when the status is already 204, never to
\* a body the action set itself.
C36_ProjectionSkipped ==
    /\ (AssignedForProjection /\ act.ctx.status # 204) =>
         /\ thrown = NoError
         /\ ctx.body = act.behaviour.setBody[1]
         /\ ctx.body = act.ctx.body
    /\ (phase = "request" /\ declared.returning /\ act.kind = "return" /\ thrown = NoError) =>
         /\ (Truthy(act.behaviour.value) \/ act.ctx.status = 204) <=>
               ctx.body = extract(act.behaviour.value, "returning")
         /\ act.behaviour.setBody # None =>
               ctx.body # extract(act.behaviour.setBody[1], "returning")

\* the action assigned an object and returned undefined on a route with
\* returning: the response carries the object as assigned
C36_Witness ==
    /\ AssignedForProjection
    /\ act.behaviour.value = Undefined
    /\ act.ctx.status = 200
    /\ mode = "responded"
    /\ delivered = [status |-> 200, body |-> Obj("assigned")]

----------------------------------------------------------------------------
(* Errors thrown outside the action wrapper (Spec).                        *)

\* a middleware threw: one inherited from a factory, or the route's own
MiddlewareFailed ==
    /\ phase = "request"
    /\ thrown # NoError
    /\ act = NoAction
    /\ ~StageFailed

\* C37: an error thrown by router-level middleware or by a route's own
\* middleware reaches the enclosing middleware exactly as thrown: the
\* action wrapper's steps (defaulting code to -1, setting status, recording
\* internalMessage, replacing the message of a non-BaseError when NODE_ENV
\* is 'production') are applied only to errors thrown inside the action
\* wrapper, and NODE_ENV is not read for any other.
C37_OnlyWrapperNormalizes ==
    /\ MiddlewareFailed =>
         /\ thrown = Error(Msg("middleware failed"))
         /\ thrown.code = None /\ thrown.status = None
         /\ thrown.internalMessage = Undefined
         /\ nodeEnv = "unread"
         /\ "action" \notin log.started
         /\ Enveloped =>
              /\ emitted[1].error = Error(Msg("middleware failed"))
              /\ ctx.status = 500
              /\ ctx.body.code = 500
    /\ StageFailed => thrown.internalMessage = Undefined /\ nodeEnv = "unread"
    /\ (phase = "request" /\ thrown # NoError /\ thrown.internalMessage # Undefined) =>
         /\ WrapperFailed
         /\ thrown.internalMessage = Raised.message
         /\ thrown.code # None /\ thrown.status # None
    /\ (phase = "request" /\ nodeEnv # "unread") =>
         WrapperFailed /\ Raised.class # "BaseError"

\* the route's own middleware threw below propagateErrors(true): the
\* envelope has the status as its code and the error's message
C37_Witness ==
    /\ MiddlewareFailed
    /\ "middleware" \in log.started
    /\ log.caught = <<TRUE>>
    /\ mode = "responded"
    /\ delivered.status = 500
    /\ delivered.body.code = 500
    /\ emitted[1].error = Error(Msg("middleware failed"))

----------------------------------------------------------------------------
(* Two routes bound for one request (SpecShared).                          *)

\* the route bound first: with or without a propagateErrors instance, an
\* inherited middleware, a middleware of its own, validation and returning
EarlierRoutes ==
    { MountedRoute(w, m, n, sch, qsch, ret) :
        w \in {<<>>, <<TRUE>>}, m \in {0, 1}, n \in {0, 1},
        sch \in {"undefined", "schema"}, qsch \in {"undefined", "querySchema"},
        ret \in {"undefined", "returning"} }

\* the route bound second, of the same factory: at the same path or at a
\* path with a named parameter, for the same methods or for all of them
LaterRoutes ==
    { [ Route(0, 2, OnePath(p), method, MiddlewareArray(<<Mw(0, 1)>>), "schema", "undefined", ret)
        EXCEPT !.routerMiddleware = [has |-> TRUE, list |-> <<Mw(1, 1)>>] ] :
        p \in {<<Sep, "test">>, <<Sep, ":id">>},
        method \in {MethodArray(2), OneMethod("all")},
        ret \in {"undefined", "returning"} }

\* createRouterRaw binds the two routes in the order of the table, and a
\* request arrives that both match
InitShared ==
    /\ phase = "shared"
    /\ sync = TRUE
    /\ factories = <<>>
    /\ pc = <<>>
    /\ deps = <<>>
    /\ created = <<>>
    /\ routerMw = <<>>
    /\ made = <<>>
    /\ calls = <<>>
    /\ rejected = [f \in 0 .. Len(ParentTable) |-> NoRejection]
    /\ arrays = [f \in Factories |-> <<>>]
    /\ \E earlier \in EarlierRoutes, later \in LaterRoutes :
         /\ allRoutes = <<earlier, later>>
         /\ router = createRouterRawReturn(allRoutes, <<>>)
         /\ request \in [ method : {"get", "post"},
                          path : {earlier.path.strs[1]},
                          body : IF earlier.schema = "undefined"
                                 THEN {Undefined} ELSE {Undefined, Obj("body")} ]
         /\ declared = [ schema |-> earlier.schema # "undefined",
                         querySchema |-> earlier.querySchema # "undefined",
                         returning |-> earlier.returning # "undefined" ]
         /\ rest = matchedStack(router, request.method, request.path)
    /\ frames = <<>>
    /\ mode = "next"
    /\ ctx = NewContext
    /\ thrown = NoError
    /\ nodeEnv = "unread"
    /\ log = NewLog
    /\ act = NoAction
    /\ emitted = <<>>
    /\ delivered = [status |-> 0]
    /\ other = NoRequest

SpecShared == InitShared /\ [][Next]_vars

\* everything koa-router chains for the request
ChainOfRequest == matchedStack(router, request.method, request.path)

\* the part of the chain that the route bound second contributed
LaterStack == matchedStack(addRouteToRouter(allRoutes[2], <<>>), request.method, request.path)

IsActionStage(stage) == stage.kind = "action"

\* the action wrappers that have been entered
Invoked == Len(SelectSeq(ChainOfRequest, IsActionStage)) - Len(SelectSeq(rest, IsActionStage))

\* C38: for any request at most one route's action is invoked (no action
\* of the model calls next); when two resolved routes match the request,
\* by the same path and method or by overlapping ones, the route bound
\* earlier handles it and the later route's validation, middleware and
\* action never run.
C38_AtMostOneAction ==
    phase = "shared" =>
        /\ Invoked = (IF act = NoAction THEN 0 ELSE 1)
        /\ Len(LaterStack) >= 3
        /\ Len(rest) >= Len(LaterStack)
        /\ SubSeq(rest, Len(rest) - Len(LaterStack) + 1, Len(rest)) = LaterStack
        /\ Len(rest) = Len(LaterStack) => mode # "next"
        /\ act # NoAction =>
             /\ Len(rest) = Len(LaterStack)
             /\ ChainOfRequest[Len(ChainOfRequest) - Len(rest)] = ActionStage(allRoutes[1])
             /\ (act.kind = "return" /\ thrown = NoError) =>
                  ctx.body = interpretResponse(act.ctx, act.behaviour.value,
                                 request.path, allRoutes[1].returning).ctx.body

\* the later route has a named parameter, all methods and returning; the
\* earlier route has no returning and its action's value went out whole
C38_Witness ==
    /\ phase = "shared"
    /\ mode = "responded"
    /\ act.kind = "return"
    /\ allRoutes[2].path = OnePath(<<Sep, ":id">>)
    /\ allRoutes[2].method = OneMethod("all")
    /\ allRoutes[2].returning = "returning"
    /\ allRoutes[1].returning = "undefined"
    /\ rest = <<Mw(1, 1), SchemaStage(allRoutes[2]), Mw(0, 1), ActionStage(allRoutes[2])>>
    /\ delivered = [status |-> 200, body |-> Obj("returned")]

----------------------------------------------------------------------------
(* What a successful action wrapper leaves behind (Spec).                  *)

\* the action wrapper of a route without returning completed
CompletedPlain ==
    /\ phase = "request"
    /\ ~declared.returning
    /\ act.kind = "return"
    /\ thrown = NoError

\* C39: on a route without returning, whenever the action wrapper completes
\* without throwing, either ctx.body holds a truthy value or the empty
\* string, or ctx.status is 204; a request never leaves the wrapper
\* successfully with an undefined body and a non-204 status.
C39_AlwaysAResponse ==
    CompletedPlain =>
        /\ Truthy(ctx.body) \/ ctx.body = EmptyString \/ ctx.status = 204
        /\ ~(ctx.body = Undefined /\ ctx.status # 204)
        /\ (Falsy(act.behaviour.value) /\ Falsy(act.ctx.body)) => ctx.status = 204
        /\ Truthy(act.behaviour.value) => ctx.body = act.behaviour.value
        /\ mode = "responded" => delivered.status \in {200, 204}

\* the action returned false and assigned nothing: 204 with no body
C39_Witness ==
    /\ CompletedPlain
    /\ act.behaviour.value = False
    /\ act.behaviour.setBody = None
    /\ act.behaviour.setStatus = None
    /\ ctx.body = Undefined
    /\ mode = "responded"
    /\ delivered.status = 204

----------------------------------------------------------------------------
(* The page size an action under paginate observes (SpecPaginate).         *)

\* the action ran under paginate(defaultCount, maxLimit), defaultCount >= 1
PaginatedFrom1 ==
    /\ Paginated
    /\ declared.middleware[1].defaultCount >= 1

\* What does hold of the page size: it is a whole number from 0 to
\* maxLimit, and 0 only when the query gave a count that spells 0; pages is
\* then Infinity, or NaN for a total of 0.
C40_PageSizeBounded ==
    PaginatedFrom1 =>
        /\ 0 <= PageSize
        /\ PageSize <= declared.middleware[1].maxLimit
        /\ PageSize = 0 =>
              /\ request.query.count.given
              /\ request.query.count.str # <<>>
        /\ (Use = <<>> \/ AddedTotal) =>
              act.ctx.state.pagination.pageSize = Finite(PageSize)
        /\ (AddedTotal /\ act.kind = "return" /\ PaginateDone) =>
              (ctx.state.meta.props.pages.finite <=> PageSize >= 1)

\* C40: whenever the action wrapped by paginate(defaultCount, maxLimit) with
\* defaultCount >= 1 is invoked, ctx.state.pagination.pageSize is an integer
\* with 1 <= pageSize <= maxLimit, so that the pages value later added to
\* meta, ceil(total / pageSize), is a finite non-negative integer.
C40_PageSizePositive ==
    PaginatedFrom1 =>
        /\ 1 <= PageSize
        /\ PageSize <= declared.middleware[1].maxLimit
        /\ (Use = <<>> \/ AddedTotal) =>
              act.ctx.state.pagination.pageSize = Finite(PageSize)
        /\ (AddedTotal /\ act.kind = "return" /\ PaginateDone) =>
              /\ ctx.state.meta.props.pages.finite
              /\ ctx.state.meta.props.pages.n >= 0

====
